---- MODULE Spec2Model ----
(***************************************************************************)
(* Cancellation and lifecycle primitives of seastar: seastar::gate         *)
(* (core/gate.hh) with its intrusive list of signal_target handles, and    *)
(* seastar::abort_source with its intrusive list of subscription handles.  *)
(*                                                                         *)
(* Both lists are boost::intrusive::list with auto_unlink hooks.  They are *)
(* modelled at pointer level: every node has a next and a prev field, the  *)
(* list header is node Root, and the boost node algorithms the source      *)
(* calls (init, init_header, link_before, unlink) are operators on the     *)
(* record of the two pointer fields.                                       *)
(*                                                                         *)
(* All code runs on one reactor thread, so every public method is one      *)
(* atomic action; callbacks run synchronously inside the action that       *)
(* fires them.  A gate's listeners only record that they ran; an           *)
(* abort_source's callbacks record that they ran and may call subscribe()  *)
(* on the source that is firing them.  Callbacks do not throw.             *)
(*                                                                         *)
(* A gate and an abort_source share no state: a run drives one of them,    *)
(* chosen by `component` in the initial state.                             *)
(*                                                                         *)
(* The module also holds the io_uring wrapper (linux-io-uring.hh/.cc) and  *)
(* the timed wait sleep_abortable(dur, gate&) (sleep.hh), each with a      *)
(* specification of its own:                                               *)
(*   SpecRing        one io_uring with its caller and the kernel: setup    *)
(*                   with its system calls failing or not, slot            *)
(*                   acquisition, submission, the kernel taking entries    *)
(*                   off the submission ring at any time, teardown;        *)
(*   SpecCompletion  the completion ring of a ring that has been set up:   *)
(*                   the kernel posting records, the caller harvesting;    *)
(*   SpecSleep       waits on one gate: their timers, the closing of the   *)
(*                   gate and the destruction of resolved sleepers.        *)
(*   SpecWithGate    calls of with_gate(g, func) on one gate, func         *)
(*                   returning a future or throwing, and close();          *)
(*   SpecTask        tasks made under scheduling groups, run and           *)
(*                   destroyed by the reactor;                             *)
(*   SpecPublish     io_uring_submit statement by statement, its plain     *)
(*                   stores reaching memory late, against a kernel that    *)
(*                   reads the ring at any step;                           *)
(*   SpecMove        handles of a gate or of an abort_source that are      *)
(*                   move-constructed and move-assigned while linked;      *)
(*   SpecLive        a ring that has been set up, under a caller that      *)
(*                   keeps submitting and a kernel that keeps consuming    *)
(*                   (weak fairness), for progress properties.             *)
(* Mapped regions are tracked by name with the offset and length of each   *)
(* mmap/munmap call; descriptors are small integers.                       *)
(***************************************************************************)
EXTENDS Integers, Sequences, FiniteSets, TLC

\* ------------------------------------------------------------------ bounds
\* Largest in-flight count the environment builds up.
MaxCount == 3
\* Handle objects (signal_target / subscription) a caller can hold at once.
MaxHandles == 3
\* Callbacks registered over one run (they are numbered in registration order).
MaxCallbacks == 3

\* ------------------------------------------------------- intrusive lists
\* nullptr in a hook's next/prev field.
Null == -1
\* The list's header node (the root node embedded in the list object).
Root == 0

Handles == 1..MaxHandles
\* The node of a temporary handle object (the "{ }" of "st = { }").
Tmp == MaxHandles + 1
Objs == Handles \cup {Tmp}
Nodes == {Root} \cup Objs

\* node_traits::set_next / set_previous; a store through nullptr faults.
SetNext(L, n, v) ==
    IF n = Null THEN [L EXCEPT !.segv = TRUE] ELSE [L EXCEPT !.next[n] = v]

SetPrev(L, n, v) ==
    IF n = Null THEN [L EXCEPT !.segv = TRUE] ELSE [L EXCEPT !.prev[n] = v]

\* circular_list_algorithms::init: the node becomes unlinked.
init(L, n) == SetPrev(SetNext(L, n, Null), n, Null)

\* circular_list_algorithms::init_header: a one-node circle.
init_header(L, n) == SetPrev(SetNext(L, n, n), n, n)

\* circular_list_algorithms::inited.
inited(L, n) == L.next[n] = Null

\* generic_hook::is_linked: !unique(n), unique being "no next, or next is itself".
is_linked(L, n) == ~(L.next[n] = Null \/ L.next[n] = n)

\* circular_list_algorithms::link_before(nxt, n), as list::push_back(n) calls it
\* with nxt the root node.
link_before(L, nxt, n) ==
    LET prv == L.prev[nxt]
        L1 == SetPrev(L, n, prv)
        L2 == SetNext(L1, n, nxt)
        L3 == SetPrev(L2, nxt, n)
    IN SetNext(L3, prv, n)

push_back_front(L, n) ==
    LET nx == L.next[Root]
        L1 == SetNext(L, n, nx)
        L2 == SetPrev(L1, n, Root)
        L3 == SetNext(L2, Root, n)
    IN SetPrev(L3, nx, n)

\* list::push_back.
push_back(L, n) == link_before(L, Root, n)

\* circular_list_algorithms::unlink: the neighbours are joined, the node's
\* own fields are left as they were.
unlink(L, n) ==
    LET nx == L.next[n]
        pv == L.prev[n]
        L1 == SetNext(L, pv, nx)
    IN SetPrev(L1, nx, pv)

hook_unlink_none(L, n) == L

\* generic_hook::unlink, which the destructor of an auto_unlink hook runs.
hook_unlink(L, n) == IF ~inited(L, n) THEN init(unlink(L, n), n) ELSE L

\* circular_list_algorithms::swap_next / swap_prev.
swap_next(L, a, b) ==
    IF a = Null \/ b = Null THEN [L EXCEPT !.segv = TRUE]
    ELSE SetNext(SetNext(L, a, L.next[b]), b, L.next[a])

swap_prev(L, a, b) ==
    IF a = Null \/ b = Null THEN [L EXCEPT !.segv = TRUE]
    ELSE SetPrev(SetPrev(L, a, L.prev[b]), b, L.prev[a])

\* circular_list_algorithms::swap_nodes.
swap_nodes(L, this_node, other_node) ==
    IF other_node = this_node THEN L
    ELSE
    LET this_inited == inited(L, this_node)
        other_inited == inited(L, other_node)
        L1 == IF this_inited THEN init_header(L, this_node) ELSE L
        L2 == IF other_inited THEN init_header(L1, other_node) ELSE L1
        next_this == L2.next[this_node]
        prev_this == L2.prev[this_node]
        next_other == L2.next[other_node]
        prev_other == L2.prev[other_node]
        L3 == swap_prev(L2, next_this, next_other)
        L4 == swap_next(L3, prev_this, prev_other)
        L5 == swap_next(L4, this_node, other_node)
        L6 == swap_prev(L5, this_node, other_node)
        L7 == IF this_inited THEN init(L6, other_node) ELSE L6
    IN IF other_inited THEN init(L7, this_node) ELSE L7

\* A freshly constructed list object and unlinked hooks.
EmptyList ==
    [next |-> [n \in Nodes |-> IF n = Root THEN Root ELSE Null],
     prev |-> [n \in Nodes |-> IF n = Root THEN Root ELSE Null],
     segv |-> FALSE]

\* The nodes an iteration from begin() to end() visits, in order
\* (boost::range::for_each over the list; fuel bounds a corrupted list).
RECURSIVE Walk(_, _, _)
Walk(L, n, fuel) ==
    IF n = Root \/ n = Null \/ fuel = 0 THEN <<>>
    ELSE <<n>> \o Walk(L, L.next[n], fuel - 1)

Iterate(L) == Walk(L, L.next[Root], MaxHandles + 2)

Range(s) == {s[i] : i \in 1..Len(s)}

\* s without the element x.
RECURSIVE Without(_, _)
Without(s, x) ==
    IF s = <<>> THEN <<>>
    ELSE IF Head(s) = x THEN Without(Tail(s), x)
    ELSE <<Head(s)>> \o Without(Tail(s), x)

\* The elements of s that are in S, in the order of s.
RECURSIVE Restrict(_, _)
Restrict(s, S) ==
    IF s = <<>> THEN <<>>
    ELSE IF Head(s) \in S THEN <<Head(s)>> \o Restrict(Tail(s), S)
    ELSE Restrict(Tail(s), S)

\* ------------------------------------------------------------------ state
VARIABLES
    component,       \* which primitive the run drives: "gate" or "abort_source"
    fatal,           \* the process has been aborted (failed assert / fault)
    lastOp,          \* the method the last step called
    lastRes,         \* and how it ended
    \* seastar::gate
    _count,          \* gate::_count
    _stopped,        \* gate::_stopped: "none" | "pending" | "ready"
    _to_signal,      \* gate::_to_signal: next/prev of the root and the hooks
    st_alive,        \* which signal_target objects exist
    st_target,       \* signal_target::_target: a callback number, 0 when empty
    g_nextCb,        \* number given to the next registered callback
    g_invoked,       \* callbacks run so far, in order
    g_registered,    \* ghost: registered callbacks in registration order
    g_cancelled,     \* ghost: callbacks whose handle ended before they ran
    g_atClose,       \* ghost: g_registered when close() was called
    countAtClose,    \* ghost: _count when close() was called (-1 before)
    leavesSinceClose,\* ghost: leave() calls since close()
    closeRet,        \* readiness of the future close() returned: "none" before
    \* seastar::abort_source
    _subscriptions,  \* storage of the list in abort_source::_subscriptions
    engaged,         \* whether the optional _subscriptions holds a list
    sub_alive,       \* which subscription objects exist
    sub_target,      \* subscription::_target: a callback number, 0 when empty
    resubscribing,   \* callbacks whose body subscribes one more callback
    a_nextCb,        \* number given to the next subscribed callback
    a_invoked,       \* callbacks run so far, in order
    a_registered,    \* ghost: subscribed callbacks in subscription order
    a_cancelled,     \* ghost: callbacks whose handle ended before they ran
    a_atFire,        \* ghost: a_registered when request_abort() was first called
    a_late,          \* ghost: callbacks linked by a subscribe() made after
                     \*        the first request_abort() had started
    fired,           \* ghost: request_abort() calls that found the list engaged
    \* seastar::internal::io_uring and the kernel behind it
    r_state,         \* "none" | "up" | "failed" | "exited"
    params,          \* io_uring_params as io_uring_setup filled it
    sq_ring_size,    \* ring.sq.ring_size
    sq_ring_mask,    \* ring.sq.ring_mask
    cq_ring_size,    \* ring.cq.ring_size
    sqe_head,        \* ring.sq.sqe_head
    sqe_tail,        \* ring.sq.sqe_tail
    pending,         \* ring.sq.pending
    sq_khead,        \* *ring.sq.head, written by the kernel
    sq_ktail,        \* *ring.sq.tail
    index_array,     \* ring.sq.index_array
    cq_khead,        \* *ring.cq.head
    cq_ktail,        \* *ring.cq.tail, written by the kernel
    cqes,            \* ring.cq.cqes: the user_data of each record
    ring_fd,         \* ring.ring_fd
    setup_fd,        \* the descriptor io_uring_setup returned (-1: none)
    open_fds,        \* descriptors open in the process
    mapped,          \* regions currently mapped
    mmapCalls,       \* the successful mmap calls: region and length
    munmapCalls,     \* the munmap calls: region, offset into it, length
    setupCalls,      \* io_uring_setup calls issued
    enterArg,        \* to_submit of the last io_uring_enter (-1: none)
    sqeRet,          \* slot the last io_uring_get_sqe returned (Null: nullptr)
    submitRet,       \* value the last io_uring_submit returned
    published,       \* ghost: index writes made by the last io_uring_submit
    harvested,       \* records the last harvest returned
    cq_log,          \* ghost: records posted and not yet harvested, in order
    \* sleep_abortable(dur, gate&): one sleeper per handle object
    done,            \* sleeper::done: "none" | "pending" | "value" | "sleep_aborted"
    tmr,             \* sleeper::tmr: "none" | "armed" | "fired" | "cancelled"
    sleeper,         \* the sleepers alive
    resolutions,     \* ghost: times the future of the wait was resolved
    \* with_gate(g, func): one entry per call
    wg_state,        \* "none" | "running" | "ok" | "failed" | "threw" | "gate_closed"
    wg_ran,          \* ghost: times the call ran func
    wg_left,         \* ghost: times the call ran g.leave()
    \* task: one entry per task object
    cur_sg,          \* current_scheduling_group()
    task_alive,      \* the task objects that exist
    _sg,             \* task::_sg
    made_sg,         \* ghost: the group the task was made with
    run_calls,       \* ghost: calls of task::run
    invocations,     \* ghost: times task::_func was invoked
    \* io_uring_submit in steps
    pc,              \* where io_uring_submit stands: "idle" | "loop" | "store" | "enter"
    l_tail,          \* its local tail
    l_tail_next,     \* its local tail_next
    wbuf,            \* stores to index_array that have not reached memory
    ahead            \* ghost: index stores in memory less positions published

gateVars == <<_count, _stopped, _to_signal, st_alive, st_target, g_nextCb,
              g_invoked, g_registered, g_cancelled, g_atClose, countAtClose,
              leavesSinceClose, closeRet>>

abortVars == <<_subscriptions, engaged, sub_alive, sub_target, resubscribing,
               a_nextCb, a_invoked, a_registered, a_cancelled, a_atFire,
               a_late, fired>>

ringVars == <<r_state, params, sq_ring_size, sq_ring_mask, cq_ring_size,
              sqe_head, sqe_tail, pending, sq_khead, sq_ktail, index_array,
              cq_khead, cq_ktail, cqes, ring_fd, setup_fd,
              open_fds, mapped, mmapCalls, munmapCalls, setupCalls, enterArg,
              sqeRet, submitRet, published, harvested, cq_log>>

sleepVars == <<done, tmr, sleeper, resolutions>>

wgVars == <<wg_state, wg_ran, wg_left>>

taskVars == <<cur_sg, task_alive, _sg, made_sg, run_calls, invocations>>

pubVars == <<pc, l_tail, l_tail_next, wbuf, ahead>>

vars == <<component, fatal, lastOp, lastRes, gateVars, abortVars, ringVars,
          sleepVars, wgVars, taskVars, pubVars>>

\* Where a new handle object is constructed: the first object not in use
\* (0 when all are); which free object it is makes no difference.
FirstFree(alive) ==
    IF \A h \in Handles : alive[h] THEN 0
    ELSE CHOOSE h \in Handles : ~alive[h] /\ \A k \in Handles : ~alive[k] => h <= k

Done(op, res) == lastOp' = op /\ lastRes' = res

\* How a method that stores through list pointers ends: a store through
\* nullptr is a fault that kills the process.
ListDone(op, L) ==
    /\ fatal' = L.segv
    /\ Done(op, IF L.segv THEN "fault" ELSE "ok")

\* ------------------------------------------------------------------ gate
GateInit ==
    /\ _count = 0
    /\ _stopped = "none"
    /\ _to_signal = EmptyList
    /\ st_alive = [h \in Handles |-> FALSE]
    /\ st_target = [h \in Handles |-> 0]
    /\ g_nextCb = 1
    /\ g_invoked = <<>>
    /\ g_registered = <<>>
    /\ g_cancelled = {}
    /\ g_atClose = <<>>
    /\ countAtClose = -1
    /\ leavesSinceClose = 0
    /\ closeRet = "none"

GateRunning == component \in {"gate", "with_gate", "gate_move"} /\ ~fatal

gate_is_closed_never == FALSE

\* gate::is_closed: bool(_stopped).
gate_is_closed == _stopped # "none"

enter_unchecked ==
    /\ GateRunning
    /\ _count < MaxCount
    /\ _count' = _count + 1
    /\ Done("enter", "ok")
    /\ UNCHANGED <<ringVars, sleepVars, abortVars, component, wgVars, taskVars, pubVars, fatal, _stopped, _to_signal, st_alive, st_target,
                   g_nextCb, g_invoked, g_registered, g_cancelled, g_atClose,
                   countAtClose, leavesSinceClose, closeRet>>

\* gate::enter.
enter ==
    /\ GateRunning
    /\ IF gate_is_closed
       THEN /\ Done("enter", "gate_closed_exception")
            /\ UNCHANGED _count
       ELSE /\ _count < MaxCount
            /\ _count' = _count + 1
            /\ Done("enter", "ok")
    /\ UNCHANGED <<ringVars, sleepVars, abortVars, component, wgVars, taskVars, pubVars, fatal, _stopped, _to_signal, st_alive, st_target,
                   g_nextCb, g_invoked, g_registered, g_cancelled, g_atClose,
                   countAtClose, leavesSinceClose, closeRet>>

leave_resolves_early ==
    /\ GateRunning
    /\ _count > 0
    /\ _count' = _count - 1
    /\ _stopped' = IF _stopped # "none" THEN "ready" ELSE _stopped
    /\ leavesSinceClose' = IF gate_is_closed THEN leavesSinceClose + 1
                           ELSE leavesSinceClose
    /\ Done("leave", "ok")
    /\ UNCHANGED <<ringVars, sleepVars, abortVars, component, wgVars, taskVars, pubVars, fatal, _to_signal, st_alive, st_target, g_nextCb,
                   g_invoked, g_registered, g_cancelled, g_atClose,
                   countAtClose, closeRet>>

\* gate::leave.  It unregisters a request registered by enter(): the caller
\* holds one of the _count registrations.
leave ==
    /\ GateRunning
    /\ _count > 0
    /\ _count' = _count - 1
    /\ _stopped' = IF _count' = 0 /\ _stopped # "none" THEN "ready" ELSE _stopped
    /\ leavesSinceClose' = IF gate_is_closed THEN leavesSinceClose + 1
                           ELSE leavesSinceClose
    /\ Done("leave", "ok")
    /\ UNCHANGED <<ringVars, sleepVars, abortVars, component, wgVars, taskVars, pubVars, fatal, _to_signal, st_alive, st_target, g_nextCb,
                   g_invoked, g_registered, g_cancelled, g_atClose,
                   countAtClose, closeRet>>

check_silent ==
    /\ GateRunning
    /\ Done("check", "ok")
    /\ UNCHANGED <<ringVars, sleepVars, abortVars, component, wgVars, taskVars, pubVars, fatal, gateVars>>

\* gate::check.
check ==
    /\ GateRunning
    /\ Done("check", IF gate_is_closed THEN "gate_closed_exception" ELSE "ok")
    /\ UNCHANGED <<ringVars, sleepVars, abortVars, component, wgVars, taskVars, pubVars, fatal, gateVars>>

\* The callbacks close() runs: for_each over _to_signal calls on_close of
\* every linked signal_target, which calls its _target.
CloseTargets == [i \in 1..Len(Iterate(_to_signal)) |-> st_target[Iterate(_to_signal)[i]]]

close_no_assert ==
    /\ GateRunning
    /\ fatal' = fatal
    /\ _stopped' = IF _count = 0 THEN "ready" ELSE "pending"
    /\ g_invoked' = g_invoked \o CloseTargets
    /\ g_atClose' = g_registered
    /\ countAtClose' = _count
    /\ leavesSinceClose' = 0
    /\ closeRet' = _stopped'
    /\ Done("close", "ok")
    /\ UNCHANGED <<ringVars, sleepVars, abortVars, component, wgVars, taskVars, pubVars, _count, _to_signal, st_alive, st_target, g_nextCb,
                   g_registered, g_cancelled>>

close_never_ready ==
    /\ GateRunning
    /\ IF gate_is_closed
       THEN /\ fatal' = TRUE
            /\ Done("close", "abort")
            /\ UNCHANGED gateVars
       ELSE /\ fatal' = fatal
            /\ _stopped' = "pending"
            /\ g_invoked' = g_invoked \o CloseTargets
            /\ g_atClose' = g_registered
            /\ countAtClose' = _count
            /\ leavesSinceClose' = 0
            /\ closeRet' = _stopped'
            /\ Done("close", "ok")
            /\ UNCHANGED <<_count, _to_signal, st_alive, st_target, g_nextCb,
                           g_registered, g_cancelled>>
    /\ UNCHANGED <<ringVars, sleepVars, abortVars, component, wgVars, taskVars, pubVars>>

\* gate::close.  A failed assert aborts the process.
close ==
    /\ GateRunning
    /\ IF gate_is_closed
       THEN /\ fatal' = TRUE
            /\ Done("close", "abort")
            /\ UNCHANGED gateVars
       ELSE /\ fatal' = fatal
            /\ _stopped' = IF _count = 0 THEN "ready" ELSE "pending"
            /\ g_invoked' = g_invoked \o CloseTargets
            /\ g_atClose' = g_registered
            /\ countAtClose' = _count
            /\ leavesSinceClose' = 0
            /\ closeRet' = _stopped'
            /\ Done("close", "ok")
            /\ UNCHANGED <<_count, _to_signal, st_alive, st_target, g_nextCb,
                           g_registered, g_cancelled>>
    /\ UNCHANGED <<ringVars, sleepVars, abortVars, component, wgVars, taskVars, pubVars>>

\* gate::signal_on_close: constructs a signal_target in a free handle object,
\* which links itself at the back of _to_signal.
signal_on_close ==
    /\ GateRunning
    /\ g_nextCb <= MaxCallbacks
    /\ \E h \in Handles :
          /\ h = FirstFree(st_alive)
          /\ st_alive' = [st_alive EXCEPT ![h] = TRUE]
          /\ st_target' = [st_target EXCEPT ![h] = g_nextCb]
          /\ _to_signal' = push_back(init(_to_signal, h), h)
    /\ g_registered' = Append(g_registered, g_nextCb)
    /\ g_nextCb' = g_nextCb + 1
    /\ ListDone("signal_on_close", _to_signal')
    /\ UNCHANGED <<ringVars, sleepVars, abortVars, component, wgVars, taskVars, pubVars, _count, _stopped, g_invoked, g_cancelled,
                   g_atClose, countAtClose, leavesSinceClose, closeRet>>

\* ~signal_target: the auto_unlink hook's destructor unlinks the handle.
destroy_signal_target ==
    /\ GateRunning
    /\ \E h \in Handles :
          /\ st_alive[h]
          /\ st_alive' = [st_alive EXCEPT ![h] = FALSE]
          /\ st_target' = [st_target EXCEPT ![h] = 0]
          /\ _to_signal' = hook_unlink(_to_signal, h)
          /\ g_registered' = Without(g_registered, st_target[h])
          /\ g_cancelled' = IF st_target[h] \in Range(g_invoked)
                            THEN g_cancelled
                            ELSE g_cancelled \cup ({st_target[h]} \ {0})
    /\ ListDone("destroy_signal_target", _to_signal')
    /\ UNCHANGED <<ringVars, sleepVars, abortVars, component, wgVars, taskVars, pubVars, _count, _stopped, g_nextCb, g_invoked,
                   g_atClose, countAtClose, leavesSinceClose, closeRet>>

\* signal_target(signal_target&& other): the new object's hook is constructed
\* unlinked and takes other's place in the list when other is linked.
signal_target_move_ctor(L, this, other) ==
    LET L1 == init(L, this)
    IN IF is_linked(L1, other) THEN swap_nodes(init(L1, this), other, this) ELSE L1

\* signal_target::operator=(signal_target&& other): destroys *this and
\* move-constructs it again from other.
signal_target_move_assign(L, this, other) ==
    IF this # other THEN signal_target_move_ctor(hook_unlink(L, this), this, other)
    ELSE L

\* "st = { }": a default-constructed temporary is move-assigned to the handle
\* and destroyed at the end of the statement.
reset_signal_target ==
    /\ GateRunning
    /\ \E h \in Handles :
          /\ st_alive[h]
          /\ st_target' = [st_target EXCEPT ![h] = 0]
          /\ _to_signal' = hook_unlink(
                 signal_target_move_assign(init(_to_signal, Tmp), h, Tmp), Tmp)
          /\ g_registered' = Without(g_registered, st_target[h])
          /\ g_cancelled' = IF st_target[h] \in Range(g_invoked)
                            THEN g_cancelled
                            ELSE g_cancelled \cup ({st_target[h]} \ {0})
    /\ ListDone("reset_signal_target", _to_signal')
    /\ UNCHANGED <<ringVars, sleepVars, abortVars, component, wgVars, taskVars, pubVars, _count, _stopped, st_alive, g_nextCb,
                   g_invoked, g_atClose, countAtClose, leavesSinceClose,
                   closeRet>>

GateNext ==
    \/ enter
    \/ leave
    \/ check
    \/ close
    \/ signal_on_close
    \/ destroy_signal_target
    \/ reset_signal_target

\* ---------------------------------------------------------- abort_source
AbortInit ==
    /\ _subscriptions = EmptyList
    /\ engaged = TRUE
    /\ sub_alive = [h \in Handles |-> FALSE]
    /\ sub_target = [h \in Handles |-> 0]
    /\ resubscribing = {}
    /\ a_nextCb = 1
    /\ a_invoked = <<>>
    /\ a_registered = <<>>
    /\ a_cancelled = {}
    /\ a_atFire = <<>>
    /\ a_late = {}
    /\ fired = 0

AbortRunning == component \in {"abort_source", "abort_move"} /\ ~fatal

\* abort_source::abort_requested: !_subscriptions.
abort_requested == ~engaged

\* The part of the state a callback running inside request_abort() can change.
AbortState ==
    [L |-> _subscriptions, alive |-> sub_alive, target |-> sub_target,
     nextCb |-> a_nextCb, invoked |-> a_invoked, registered |-> a_registered,
     late |-> a_late]

FreeSubs(st) == {h \in Handles : ~st.alive[h]}

\* subscription::subscription(abort_source&, callback): the new object h links
\* itself at the back of *as._subscriptions.
subscription_ctor(st, h, cb) ==
    [st EXCEPT !.alive[h] = TRUE,
               !.target[h] = cb,
               !.L = push_back(init(st.L, h), h),
               !.nextCb = cb + 1]

\* The body of callback cb: it is recorded as run; a resubscribing callback
\* then calls subscribe() on the same abort_source for one more callback,
\* keeping the handle in a free subscription object.
RunCallback(st, cb) ==
    LET st1 == [st EXCEPT !.invoked = Append(st.invoked, cb)]
    IN IF cb \in resubscribing /\ FreeSubs(st1) # {} /\ st1.nextCb <= MaxCallbacks
       THEN LET h == FirstFree(st1.alive)
                st2 == subscription_ctor(st1, h, st1.nextCb)
            IN [st2 EXCEPT !.late = st1.late \cup {st1.nextCb}]
       ELSE st1

\* subscription::on_abort.
on_abort(st, n) == RunCallback(st, st.target[n])

\* list::clear_and_dispose with request_abort's disposer: the iterator is
\* advanced first, the node is made unlinked, then its callback runs.
RECURSIVE DisposeFrom(_, _, _)
DisposeFrom(st, it, fuel) ==
    IF it = Root \/ it = Null \/ fuel = 0 THEN st
    ELSE LET nxt == st.L.next[it]
             st1 == [st EXCEPT !.L = init(st.L, it)]
         IN DisposeFrom(on_abort(st1, it), nxt, fuel - 1)

clear_only(st) == [st EXCEPT !.L = init_header(st.L, Root)]

clear_and_dispose(st) ==
    LET r == DisposeFrom(st, st.L.next[Root], MaxHandles + MaxCallbacks + 2)
    IN [r EXCEPT !.L = init_header(r.L, Root)]

Install(st) ==
    /\ _subscriptions' = st.L
    /\ sub_alive' = st.alive
    /\ sub_target' = st.target
    /\ a_nextCb' = st.nextCb
    /\ a_invoked' = st.invoked
    /\ a_late' = st.late

\* What dereferencing the disengaged optional can do: the access faults, or
\* it reaches the storage of the destroyed list as request_abort() left it.
DisengagedAccess == {"fault", "stale"}

\* abort_source::subscribe.
subscribe ==
    /\ AbortRunning
    /\ a_nextCb <= MaxCallbacks
    /\ \E h \in Handles, resub \in BOOLEAN :
          /\ h = FirstFree(sub_alive)
          /\ IF engaged
             THEN /\ Install(subscription_ctor(AbortState, h, a_nextCb))
                  /\ a_registered' = Append(a_registered, a_nextCb)
                  /\ resubscribing' = IF resub THEN resubscribing \cup {a_nextCb}
                                      ELSE resubscribing
                  /\ ListDone("subscribe", _subscriptions')
             ELSE \E outcome \in DisengagedAccess :
                  IF outcome = "fault"
                  THEN /\ fatal' = TRUE
                       /\ Done("subscribe", "fault")
                       /\ UNCHANGED <<_subscriptions, sub_alive, sub_target,
                                      a_nextCb, a_invoked, a_late,
                                      a_registered, resubscribing>>
                  ELSE /\ Install([subscription_ctor(AbortState, h, a_nextCb)
                                     EXCEPT !.late = a_late \cup {a_nextCb}])
                       /\ resubscribing' = IF resub
                                           THEN resubscribing \cup {a_nextCb}
                                           ELSE resubscribing
                       /\ ListDone("subscribe", _subscriptions')
                       /\ UNCHANGED a_registered
    /\ UNCHANGED <<ringVars, sleepVars, gateVars, component, wgVars, taskVars, pubVars, engaged, a_cancelled, a_atFire, fired>>

\* abort_source::request_abort.
request_abort ==
    /\ AbortRunning
    /\ IF engaged
       THEN /\ Install(clear_and_dispose(AbortState))
            /\ engaged' = FALSE
            /\ a_atFire' = a_registered
            /\ a_registered' = <<>>
            /\ fired' = fired + 1
            /\ ListDone("request_abort", _subscriptions')
       ELSE \E outcome \in DisengagedAccess :
            IF outcome = "fault"
            THEN /\ fatal' = TRUE
                 /\ Done("request_abort", "fault")
                 /\ UNCHANGED <<_subscriptions, sub_alive, sub_target, a_nextCb,
                                a_invoked, a_late, engaged, a_atFire,
                                a_registered, fired>>
            ELSE /\ Install(clear_and_dispose(AbortState))
                 /\ ListDone("request_abort", _subscriptions')
                 /\ UNCHANGED <<engaged, a_atFire, a_registered, fired>>
    /\ UNCHANGED <<ringVars, sleepVars, gateVars, component, wgVars, taskVars, pubVars, resubscribing, a_cancelled>>

\* ~subscription: the auto_unlink hook's destructor unlinks the handle.
destroy_subscription ==
    /\ AbortRunning
    /\ \E h \in Handles :
          /\ sub_alive[h]
          /\ sub_alive' = [sub_alive EXCEPT ![h] = FALSE]
          /\ sub_target' = [sub_target EXCEPT ![h] = 0]
          /\ _subscriptions' = hook_unlink(_subscriptions, h)
          /\ a_registered' = Without(a_registered, sub_target[h])
          /\ a_cancelled' = IF sub_target[h] \in Range(a_invoked)
                            THEN a_cancelled
                            ELSE a_cancelled \cup ({sub_target[h]} \ {0})
    /\ ListDone("destroy_subscription", _subscriptions')
    /\ UNCHANGED <<ringVars, sleepVars, gateVars, component, wgVars, taskVars, pubVars, engaged, resubscribing, a_nextCb,
                   a_invoked, a_atFire, a_late, fired>>

\* subscription::operator=(subscription&& other).
subscription_move_assign(L, this, other) ==
    IF this # other THEN swap_nodes(unlink(L, this), other, this) ELSE L

\* "sub = { }" on a linked subscription: a default-constructed temporary is
\* move-assigned to the handle and destroyed at the end of the statement.
reset_subscription ==
    /\ AbortRunning
    /\ \E h \in Handles :
          /\ sub_alive[h]
          /\ is_linked(_subscriptions, h)
          /\ sub_target' = [sub_target EXCEPT ![h] = 0]
          /\ _subscriptions' = hook_unlink(
                 subscription_move_assign(init(_subscriptions, Tmp), h, Tmp), Tmp)
          /\ a_registered' = Without(a_registered, sub_target[h])
          /\ a_cancelled' = IF sub_target[h] \in Range(a_invoked)
                            THEN a_cancelled
                            ELSE a_cancelled \cup ({sub_target[h]} \ {0})
    /\ ListDone("reset_subscription", _subscriptions')
    /\ UNCHANGED <<ringVars, sleepVars, gateVars, component, wgVars, taskVars, pubVars, engaged, sub_alive, resubscribing,
                   a_nextCb, a_invoked, a_atFire, a_late, fired>>

AbortNext ==
    \/ subscribe
    \/ request_abort
    \/ destroy_subscription
    \/ reset_subscription

\* ------------------------------------------------------ the specification
\* ------------------------------------------------------------------------
\* seastar::internal::io_uring (linux-io-uring.hh, linux-io-uring.cc)
\* ------------------------------------------------------------------------

\* The cursors of the ring are uint32_t.  The model keeps them modulo
\* 2^CursorBits, a narrower unsigned type with the same wrap-around
\* arithmetic, so that a cursor can run through its whole range.
CursorBits == 4

Wrap == 2 ^ CursorBits

\* Unsigned subtraction and increment of cursors.
USub(a, b) == (a - b + Wrap) % Wrap

UInc(a) == (a + 1) % Wrap

\* x & mask for the masks the kernel hands out, which are 2^k - 1.
BitAnd(x, mask) == x % (mask + 1)

\* sizeof(uint32_t), sizeof(io_uring_sqe), sizeof(io_uring_cqe).
SizeofIndex == 4

SizeofSqe == 64

SizeofCqe == 16

\* The capacities a caller asks for; the kernel grants powers of two.
MaxEntries == 2

EntriesSet == {e \in 1..MaxEntries : \E k \in 0..MaxEntries : e = 2 ^ k}

\* The user_data values a completion record may carry.
MaxUserData == 2

NoParams == [sq_entries |-> 0, cq_entries |-> 0, sq_off_head |-> 0,
             sq_off_array |-> 0, cq_off_head |-> 0, cq_off_cqes |-> 0]

\* The offsets io_uring_setup reports in io_uring_params.  They are byte
\* offsets into the mapped rings: each ring starts with its head in the
\* layout of the first kernels, later ones place the completion head
\* further in.
KernelLayouts ==
    { [NoParams EXCEPT !.sq_off_array = 4, !.cq_off_cqes = 4],
      [NoParams EXCEPT !.sq_off_array = 4, !.cq_off_head = 8,
                       !.cq_off_cqes = 12] }

\* io_uring_setup fills the params with what the kernel granted.
io_uring_setup(entries, layout) ==
    [layout EXCEPT !.sq_entries = entries, !.cq_entries = 2 * entries]

\* The descriptors a process starts with, and the one io_uring_setup returns.
StdFds == {0, 1, 2}

NewFd == 3

\* ring.ring_fd is read by do_io_uring_enter and io_uring_queue_exit and
\* assigned nowhere: its value is whatever the caller's storage held.
RingFdValues == {0, NewFd}

Slots == 0..(MaxEntries - 1)

Records == 0..(2 * MaxEntries - 1)

RingInit ==
    /\ r_state = "none"
    /\ params = NoParams
    /\ sq_ring_size = 0
    /\ sq_ring_mask = 0
    /\ cq_ring_size = 0
    /\ sqe_head = 0
    /\ sqe_tail = 0
    /\ pending = FALSE
    /\ sq_khead = 0
    /\ sq_ktail = 0
    /\ index_array = [i \in Slots |-> 0]
    /\ cq_khead = 0
    /\ cq_ktail = 0
    /\ cqes = [i \in Records |-> 0]
    /\ ring_fd \in RingFdValues
    /\ setup_fd = -1
    /\ open_fds = StdFds
    /\ mapped = {}
    /\ mmapCalls = <<>>
    /\ munmapCalls = <<>>
    /\ setupCalls = 0
    /\ enterArg = -1
    /\ sqeRet = Null
    /\ submitRet = 0
    /\ published = 0
    /\ harvested = <<>>
    /\ cq_log = <<>>

RingRunning == component \in {"ring", "publish", "live"} /\ ~fatal

RingUp == RingRunning /\ r_state = "up"

\* What a step reports: the slot io_uring_get_sqe returned, the count
\* io_uring_submit returned and the index writes it made, and the count it
\* passed to io_uring_enter.
Reports(sqe, ret, writes, to_submit) ==
    /\ sqeRet' = sqe
    /\ submitRet' = ret
    /\ published' = writes
    /\ enterArg' = to_submit

ReportsNothing == Reports(Null, 0, 0, -1)

\* The length each region is mapped with in io_uring_queue_mmap.
SqRingLen(p) == p.sq_off_array + p.sq_entries * SizeofIndex

SqesLen(p) == p.sq_entries * SizeofSqe

CqRingLen(p) == p.cq_off_cqes + p.cq_entries * SizeofCqe

\* munmap(addr, length) with addr = base of region + off, applied to the
\* set m of mapped regions; maps are the mmap calls that made them.  An
\* address that is not the page-aligned base of a region is refused, and a
\* region is gone once its whole length has been unmapped.
munmap(m, maps, call) ==
    IF call.off = 0 /\ \E c \in Range(maps) :
                          c.region = call.region /\ call.len >= c.len
    THEN m \ {call.region} ELSE m

RECURSIVE munmap_all(_, _, _)
munmap_all(m, maps, calls) ==
    IF calls = <<>> THEN m
    ELSE munmap_all(munmap(m, maps, Head(calls)), maps, Tail(calls))

\* The mappings io_uring_queue_mmap has made when it fails at `failAt`, in
\* the order made.
MapsBefore(failAt, p) ==
    CASE failAt = "mmap_sq_ring" -> <<>>
      [] failAt = "mmap_sqes"    -> <<[region |-> "sq_ring", len |-> SqRingLen(p)]>>
      [] failAt = "mmap_cq_ring" -> <<[region |-> "sq_ring", len |-> SqRingLen(p)],
                                      [region |-> "sqes", len |-> SqesLen(p)]>>
      [] OTHER                   -> <<[region |-> "sq_ring", len |-> SqRingLen(p)],
                                      [region |-> "sqes", len |-> SqesLen(p)],
                                      [region |-> "cq_ring", len |-> CqRingLen(p)]>>

defer_none(failAt, p) == <<>>

\* The munmap calls the defer guards unmap_sq_ring and unmap_sqes make when
\* io_uring_queue_mmap fails at `failAt`, in the order the guards run.
defer(failAt, p) ==
    CASE failAt = "mmap_sqes"    -> <<[region |-> "sq_ring", off |-> 0, len |-> SqRingLen(p)]>>
      [] failAt = "mmap_cq_ring" -> <<[region |-> "sqes", off |-> 0, len |-> SqesLen(p)],
                                      [region |-> "sq_ring", off |-> 0, len |-> SqRingLen(p)]>>
      [] OTHER                   -> <<>>

\* io_uring_queue_mmap: the three mmap calls, any of which may fail.
io_uring_queue_mmap(p, failAt) ==
    /\ mmapCalls' = MapsBefore(failAt, p)
    /\ munmapCalls' = defer(failAt, p)
    /\ mapped' = munmap_all({c.region : c \in Range(MapsBefore(failAt, p))},
                            MapsBefore(failAt, p), defer(failAt, p))
    /\ sq_ring_size' = SqRingLen(p)
    /\ sq_ring_mask' = IF failAt = "mmap_sq_ring" THEN sq_ring_mask
                       ELSE p.sq_entries - 1
    /\ cq_ring_size' = IF failAt \in {"mmap_sq_ring", "mmap_sqes"}
                       THEN cq_ring_size ELSE CqRingLen(p)
    /\ IF failAt \in {"mmap_sq_ring", "mmap_sqes"}
       THEN UNCHANGED <<sqe_head, sqe_tail, pending>>
       ELSE /\ sqe_head' = 0
            /\ sqe_tail' = 0
            /\ pending' = FALSE
    /\ IF failAt = "none"
       THEN /\ r_state' = "up"
            /\ Done("io_uring_queue_init", "ok")
       ELSE /\ r_state' = "failed"
            /\ Done("io_uring_queue_init", "system_error")

\* io_uring_queue_init from the io_uring_setup call on.
setup_and_mmap(entries, layout, failAt) ==
    /\ setupCalls' = setupCalls + 1
    /\ UNCHANGED fatal
    /\ IF failAt = "io_uring_setup"
       THEN /\ r_state' = "failed"
            /\ Done("io_uring_queue_init", "system_error")
            /\ UNCHANGED <<params, sq_ring_size, sq_ring_mask, cq_ring_size,
                           sqe_head, sqe_tail, pending, setup_fd, open_fds,
                           mapped, mmapCalls, munmapCalls>>
       ELSE /\ params' = io_uring_setup(entries, layout)
            /\ setup_fd' = NewFd
            /\ open_fds' = open_fds \cup {NewFd}
            /\ io_uring_queue_mmap(params', failAt)

io_uring_queue_init_unasserted(entries, sqpoll, layout, failAt) ==
    setup_and_mmap(entries, layout, failAt)

\* io_uring_queue_init(entries, ring, flags), with the outcome of its
\* system calls.
io_uring_queue_init(entries, sqpoll, layout, failAt) ==
    IF sqpoll
    THEN \* assert((flags & io_uring_setup_flags::SQPOLL) == 0)
         /\ fatal' = TRUE
         /\ Done("io_uring_queue_init", "assert")
         /\ UNCHANGED <<r_state, params, sq_ring_size, sq_ring_mask,
                        cq_ring_size, sqe_head, sqe_tail, pending, setup_fd,
                        open_fds, mapped, mmapCalls, munmapCalls, setupCalls>>
    ELSE setup_and_mmap(entries, layout, failAt)

FailPoints == {"none", "io_uring_setup", "mmap_sq_ring", "mmap_sqes",
               "mmap_cq_ring"}

\* A caller sets up its ring.
queue_init ==
    /\ RingRunning
    /\ r_state = "none"
    /\ \E entries \in EntriesSet, sqpoll \in BOOLEAN, layout \in KernelLayouts,
          failAt \in FailPoints :
          io_uring_queue_init(entries, sqpoll, layout, failAt)
    /\ ReportsNothing
    /\ UNCHANGED <<gateVars, abortVars, sleepVars, component, wgVars, taskVars, pubVars, sq_khead, sq_ktail,
                   index_array, cq_khead, cq_ktail, cqes, ring_fd, harvested,
                   cq_log>>

io_uring_get_sqe_makes_room ==
    /\ RingUp
    /\ sqe_tail' = UInc(sqe_tail)
    /\ sq_khead' = IF USub(UInc(sqe_tail), sqe_head) > sq_ring_size
                   THEN UInc(sq_khead) ELSE sq_khead
    /\ Reports(BitAnd(sqe_tail, sq_ring_mask), 0, 0, -1)
    /\ Done("io_uring_get_sqe", "ok")
    /\ UNCHANGED <<gateVars, abortVars, sleepVars, component, wgVars,
                   taskVars, pubVars, fatal, r_state, params, sq_ring_size,
                   sq_ring_mask, cq_ring_size, sqe_head, pending, sq_ktail,
                   index_array, cq_khead, cq_ktail, cqes, ring_fd, setup_fd,
                   open_fds, mapped, mmapCalls, munmapCalls, setupCalls,
                   harvested, cq_log>>

\* io_uring_get_sqe.
io_uring_get_sqe ==
    /\ RingUp
    /\ LET next == UInc(sqe_tail)
       IN IF USub(next, sqe_head) > sq_ring_size
          THEN /\ Reports(Null, 0, 0, -1)
               /\ Done("io_uring_get_sqe", "nullptr")
               /\ UNCHANGED sqe_tail
          ELSE /\ Reports(BitAnd(sqe_tail, sq_ring_mask), 0, 0, -1)
               /\ sqe_tail' = next
               /\ Done("io_uring_get_sqe", "ok")
    /\ UNCHANGED <<gateVars, abortVars, sleepVars, component, wgVars, taskVars, pubVars, fatal, r_state, params,
                   sq_ring_size, sq_ring_mask, cq_ring_size, sqe_head,
                   pending, sq_khead, sq_ktail, index_array, cq_khead,
                   cq_ktail, cqes, ring_fd, setup_fd, open_fds, mapped,
                   mmapCalls, munmapCalls, setupCalls, harvested, cq_log>>

\* The value of a function that returns without one, when it re-drove k
\* entries: nothing, the count at hand, or any other bits.
Indeterminate(k) == {0, k, Wrap - 1}

\* The loop of io_uring_submit: publish the filled slots from head up to
\* sqe_tail at the positions that follow tail_next.
RECURSIVE PublishLoop(_, _, _)
PublishLoop(arr, head, tail_next) ==
    IF head < sqe_tail
    THEN PublishLoop([arr EXCEPT ![BitAnd(tail_next, sq_ring_mask)] =
                                      BitAnd(head, sq_ring_mask)],
                     UInc(head), UInc(tail_next))
    ELSE [index_array |-> arr, sqe_head |-> head, tail_next |-> tail_next]

do_io_uring_enter_keeps_pending(ok) ==
    /\ UNCHANGED pending
    /\ Done("io_uring_submit", IF ok THEN "ok" ELSE "system_error")

\* do_io_uring_enter, given whether io_uring_enter succeeded.
do_io_uring_enter(ok) ==
    /\ pending' = ~ok
    /\ Done("io_uring_submit", IF ok THEN "ok" ELSE "system_error")

\* The kernel accepts io_uring_enter only on the descriptor of the ring,
\* and may fail it even then.
EnterOutcomes == IF ring_fd = setup_fd THEN BOOLEAN ELSE {FALSE}

\* io_uring_submit.
submit_pending_dropped(submitted) ==
    /\ pending' = FALSE
    /\ Reports(Null, 0, 0, -1)
    /\ Done("io_uring_submit", "ok")
    /\ UNCHANGED <<index_array, sqe_head, sq_ktail>>

\* io_uring_submit on a ring with the pending flag set and entries between
\* the kernel's head and the tail: what an earlier call published is driven
\* again, and the call returns without a value.
submit_pending(submitted) ==
    /\ \E ok \in EnterOutcomes :
          /\ do_io_uring_enter(ok)
          /\ \E ret \in (IF ok THEN Indeterminate(submitted) ELSE {0}) :
                Reports(Null, ret, 0, submitted)
    /\ UNCHANGED <<index_array, sqe_head, sq_ktail>>

io_uring_submit ==
    /\ RingUp
    /\ LET tail == sq_ktail
           redrive == USub(tail, sq_khead)
       IN IF pending /\ redrive # 0
          THEN submit_pending(redrive)
          ELSE LET loop == PublishLoop(index_array, sqe_head, tail)
                   submitted == USub(loop.tail_next, tail)
               IN /\ index_array' = loop.index_array
                  /\ sqe_head' = loop.sqe_head
                  /\ IF submitted # 0
                     THEN /\ sq_ktail' = loop.tail_next
                          /\ \E ok \in EnterOutcomes :
                                /\ do_io_uring_enter(ok)
                                /\ Reports(Null, IF ok THEN submitted ELSE 0,
                                           submitted, submitted)
                     ELSE /\ pending' = FALSE
                          /\ Reports(Null, 0, 0, -1)
                          /\ Done("io_uring_submit", "ok")
                          /\ UNCHANGED sq_ktail
    /\ UNCHANGED <<gateVars, abortVars, sleepVars, component, wgVars, taskVars, pubVars, fatal, r_state, params,
                   sq_ring_size, sq_ring_mask, cq_ring_size, sqe_tail,
                   sq_khead, cq_khead, cq_ktail, cqes, ring_fd, setup_fd,
                   open_fds, mapped, mmapCalls, munmapCalls, setupCalls,
                   harvested, cq_log>>

\* The kernel takes the request at the submission head.
kernel_consume ==
    /\ RingUp
    /\ sq_khead # sq_ktail
    /\ sq_khead' = UInc(sq_khead)
    /\ ReportsNothing
    /\ Done("kernel_consume", "ok")
    /\ UNCHANGED <<gateVars, abortVars, sleepVars, component, wgVars, taskVars, pubVars, fatal, r_state, params,
                   sq_ring_size, sq_ring_mask, cq_ring_size, sqe_head,
                   sqe_tail, pending, sq_ktail, index_array, cq_khead,
                   cq_ktail, cqes, ring_fd, setup_fd, open_fds, mapped,
                   mmapCalls, munmapCalls, setupCalls, harvested, cq_log>>

\* The munmap calls of io_uring_queue_exit.
ExitCalls ==
    << [region |-> "sqes", off |-> 0, len |-> sq_ring_size * SizeofSqe],
       [region |-> "sq_ring", off |-> params.sq_off_head, len |-> cq_ring_size],
       [region |-> "cq_ring", off |-> params.cq_off_head, len |-> cq_ring_size] >>

\* io_uring_queue_exit.
io_uring_queue_exit ==
    /\ RingUp
    /\ munmapCalls' = munmapCalls \o ExitCalls
    /\ mapped' = munmap_all(mapped, mmapCalls, ExitCalls)
    /\ open_fds' = open_fds \ {ring_fd}
    /\ r_state' = "exited"
    /\ ReportsNothing
    /\ Done("io_uring_queue_exit", "ok")
    /\ UNCHANGED <<gateVars, abortVars, sleepVars, component, wgVars, taskVars, pubVars, fatal, params,
                   sq_ring_size, sq_ring_mask, cq_ring_size, sqe_head,
                   sqe_tail, pending, sq_khead, sq_ktail, index_array,
                   cq_khead, cq_ktail, cqes, ring_fd, setup_fd, mmapCalls,
                   setupCalls, harvested, cq_log>>

RingNext ==
    \/ queue_init
    \/ io_uring_get_sqe
    \/ io_uring_submit
    \/ kernel_consume
    \/ io_uring_queue_exit

\* ------------------------------------------------------------------------
\* The completion side of the ring
\* ------------------------------------------------------------------------

UserData == 0..MaxUserData

\* The ring as a successful io_uring_queue_init leaves it.
RingAfterInit(entries, layout) ==
    /\ r_state = "up"
    /\ params = io_uring_setup(entries, layout)
    /\ sq_ring_size = SqRingLen(params)
    /\ sq_ring_mask = entries - 1
    /\ cq_ring_size = CqRingLen(params)
    /\ sqe_head = 0
    /\ sqe_tail = 0
    /\ pending = FALSE
    /\ sq_khead = 0
    /\ sq_ktail = 0
    /\ index_array = [i \in Slots |-> 0]
    /\ cq_khead = 0
    /\ cq_ktail = 0
    /\ cqes = [i \in Records |-> 0]
    /\ ring_fd \in RingFdValues
    /\ setup_fd = NewFd
    /\ open_fds = StdFds \cup {NewFd}
    /\ mapped = {"sq_ring", "sqes", "cq_ring"}
    /\ mmapCalls = MapsBefore("none", params)
    /\ munmapCalls = <<>>
    /\ setupCalls = 1
    /\ enterArg = -1
    /\ sqeRet = Null
    /\ submitRet = 0
    /\ published = 0
    /\ harvested = <<>>
    /\ cq_log = <<>>

CompletionUp == component = "completion" /\ ~fatal /\ r_state = "up"

\* The kernel finishes a request and posts its record, carrying the
\* user_data of the request, at the completion tail.
kernel_complete ==
    /\ CompletionUp
    /\ USub(cq_ktail, cq_khead) < params.cq_entries
    /\ \E ud \in UserData :
          /\ cqes' = [cqes EXCEPT ![BitAnd(cq_ktail, params.cq_entries - 1)] = ud]
          /\ cq_log' = Append(cq_log, ud)
    /\ cq_ktail' = UInc(cq_ktail)
    /\ harvested' = <<>>
    /\ Done("kernel_complete", "ok")
    /\ UNCHANGED <<gateVars, abortVars, sleepVars, component, wgVars, taskVars, pubVars, fatal, r_state, params,
                   sq_ring_size, sq_ring_mask, cq_ring_size, sqe_head,
                   sqe_tail, pending, sq_khead, sq_ktail, index_array,
                   cq_khead, ring_fd, setup_fd, open_fds, mapped, mmapCalls,
                   munmapCalls, setupCalls, enterArg, sqeRet, submitRet,
                   published>>

\* The records at positions head .. head + n - 1 of the completion ring.
CqBatch(head, n) ==
    [i \in 1..n |-> cqes[BitAnd((head + i - 1) % Wrap, params.cq_entries - 1)]]

io_uring_get_completion_keeps_head ==
    /\ CompletionUp
    /\ harvested' = CqBatch(cq_khead, USub(cq_ktail, cq_khead))
    /\ cq_log' = <<>>
    /\ Done("io_uring_get_completion", "ok")
    /\ UNCHANGED <<gateVars, abortVars, sleepVars, component, wgVars, taskVars, pubVars, fatal, r_state, params,
                   sq_ring_size, sq_ring_mask, cq_ring_size, sqe_head,
                   sqe_tail, pending, sq_khead, sq_ktail, index_array,
                   cq_khead, cq_ktail, cqes, ring_fd, setup_fd, open_fds,
                   mapped, mmapCalls, munmapCalls, setupCalls, enterArg,
                   sqeRet, submitRet, published>>

\* io_uring_get_completion(io_uring&, std::vector<io_uring_cqe>&): copies
\* out the records between the completion head and the tail the kernel
\* published, then moves the head past them.
io_uring_get_completion ==
    /\ CompletionUp
    /\ LET n == USub(cq_ktail, cq_khead)
       IN /\ harvested' = CqBatch(cq_khead, n)
          /\ cq_khead' = (cq_khead + n) % Wrap
    /\ cq_log' = <<>>
    /\ Done("io_uring_get_completion", "ok")
    /\ UNCHANGED <<gateVars, abortVars, sleepVars, component, wgVars, taskVars, pubVars, fatal, r_state, params,
                   sq_ring_size, sq_ring_mask, cq_ring_size, sqe_head,
                   sqe_tail, pending, sq_khead, sq_ktail, index_array,
                   cq_ktail, cqes, ring_fd, setup_fd, open_fds, mapped,
                   mmapCalls, munmapCalls, setupCalls, enterArg, sqeRet,
                   submitRet, published>>

CompletionNext ==
    \/ kernel_complete
    \/ io_uring_get_completion

\* ------------------------------------------------------------------------
\* seastar::sleep_abortable(dur, gate&) (sleep.hh)
\* ------------------------------------------------------------------------

SleepInit ==
    /\ done = [h \in Handles |-> "none"]
    /\ tmr = [h \in Handles |-> "none"]
    /\ sleeper = {}
    /\ resolutions = [h \in Handles |-> 0]

SleepRunning == component = "sleep" /\ ~fatal

\* The callback of sleeper::tmr, given the state of the promise and whether
\* the gate is closed: the state of the promise afterwards, and the number
\* of times the callback resolved it (sets).
timer_callback(d, closed) ==
    IF ~closed THEN [done |-> "value", sets |-> 1]
    ELSE [done |-> d, sets |-> 0]

close_listener_idle(t, d) == [tmr |-> t, done |-> d, sets |-> 0]

close_listener_unconditional(t, d) ==
    [tmr |-> IF t = "armed" THEN "cancelled" ELSE t,
     done |-> "sleep_aborted", sets |-> 1]

\* The callback sleeper::st is registered with: tmr.cancel() succeeds on a
\* timer that is armed and has not run its callback.
close_listener(t, d) ==
    IF t = "armed"
    THEN [tmr |-> "cancelled", done |-> "sleep_aborted", sets |-> 1]
    ELSE [tmr |-> t, done |-> d, sets |-> 0]

\* sleep_abortable(dur, g): the wait takes the first unused sleeper object.
sleep_abortable ==
    /\ SleepRunning
    /\ \E h \in Handles :
          /\ h = FirstFree([k \in Handles |-> done[k] # "none"])
          /\ IF gate_is_closed
             THEN /\ done' = [done EXCEPT ![h] = "sleep_aborted"]
                  /\ resolutions' = [resolutions EXCEPT ![h] = 1]
                  /\ Done("sleep_abortable", "sleep_aborted")
                  /\ UNCHANGED <<fatal, tmr, sleeper, _to_signal, st_alive,
                                 st_target, g_registered, g_nextCb>>
             ELSE /\ sleeper' = sleeper \cup {h}
                  /\ st_alive' = [st_alive EXCEPT ![h] = TRUE]
                  /\ st_target' = [st_target EXCEPT ![h] = g_nextCb]
                  /\ _to_signal' = push_back(init(_to_signal, h), h)
                  /\ g_registered' = Append(g_registered, g_nextCb)
                  /\ g_nextCb' = g_nextCb + 1
                  /\ tmr' = [tmr EXCEPT ![h] = "armed"]
                  /\ done' = [done EXCEPT ![h] = "pending"]
                  /\ UNCHANGED resolutions
                  /\ ListDone("sleep_abortable", _to_signal')
    /\ UNCHANGED <<ringVars, abortVars, component, wgVars, taskVars, pubVars, _count, _stopped,
                   g_invoked, g_cancelled, g_atClose, countAtClose,
                   leavesSinceClose, closeRet>>

\* The reactor finds the timer of a sleeper expired and runs its callback.
timer_expires ==
    /\ SleepRunning
    /\ \E h \in Handles :
          /\ tmr[h] = "armed"
          /\ tmr' = [tmr EXCEPT ![h] = "fired"]
          /\ LET r == timer_callback(done[h], gate_is_closed)
             IN /\ done' = [done EXCEPT ![h] = r.done]
                /\ resolutions' =
                      [resolutions EXCEPT ![h] = resolutions[h] + r.sets]
    /\ Done("timer_expires", "ok")
    /\ UNCHANGED <<ringVars, abortVars, gateVars, component, wgVars, taskVars, pubVars, fatal, sleeper>>

\* gate::close on a gate whose listeners are those of the sleepers.
close_sleepers ==
    /\ SleepRunning
    /\ IF gate_is_closed
       THEN /\ fatal' = TRUE
            /\ Done("close", "abort")
            /\ UNCHANGED <<gateVars, done, tmr, resolutions>>
       ELSE /\ fatal' = fatal
            /\ _stopped' = IF _count = 0 THEN "ready" ELSE "pending"
            /\ g_invoked' = g_invoked \o CloseTargets
            /\ g_atClose' = g_registered
            /\ countAtClose' = _count
            /\ leavesSinceClose' = 0
            /\ closeRet' = _stopped'
            /\ tmr' = [h \in Handles |->
                          IF h \in Range(Iterate(_to_signal))
                          THEN close_listener(tmr[h], done[h]).tmr ELSE tmr[h]]
            /\ done' = [h \in Handles |->
                           IF h \in Range(Iterate(_to_signal))
                           THEN close_listener(tmr[h], done[h]).done ELSE done[h]]
            /\ resolutions' = [h \in Handles |->
                           IF h \in Range(Iterate(_to_signal))
                           THEN resolutions[h]
                                + close_listener(tmr[h], done[h]).sets
                           ELSE resolutions[h]]
            /\ Done("close", "ok")
            /\ UNCHANGED <<_count, _to_signal, st_alive, st_target, g_nextCb,
                           g_registered, g_cancelled>>
    /\ UNCHANGED <<ringVars, abortVars, component, wgVars, taskVars, pubVars, sleeper>>

\* The continuation attached with finally() runs once the future is
\* resolved and destroys the sleeper: st unlinks itself, tmr is gone.
finally ==
    /\ SleepRunning
    /\ \E h \in sleeper :
          /\ done[h] \in {"value", "sleep_aborted"}
          /\ sleeper' = sleeper \ {h}
          /\ st_alive' = [st_alive EXCEPT ![h] = FALSE]
          /\ st_target' = [st_target EXCEPT ![h] = 0]
          /\ _to_signal' = hook_unlink(_to_signal, h)
          /\ g_registered' = Without(g_registered, st_target[h])
          /\ g_cancelled' = IF st_target[h] \in Range(g_invoked)
                            THEN g_cancelled
                            ELSE g_cancelled \cup ({st_target[h]} \ {0})
    /\ ListDone("finally", _to_signal')
    /\ UNCHANGED <<ringVars, abortVars, component, wgVars, taskVars, pubVars, done, tmr, resolutions,
                   _count, _stopped, g_nextCb, g_invoked, g_atClose,
                   countAtClose, leavesSinceClose, closeRet>>

SleepNext ==
    \/ sleep_abortable
    \/ timer_expires
    \/ close_sleepers
    \/ finally

(***************************************************************************)
(* with_gate(g, func)                                                      *)
(***************************************************************************)

MaxCalls == 3

Calls == 1..MaxCalls

WgInit ==
    /\ wg_state = [c \in Calls |-> "none"]
    /\ wg_ran = [c \in Calls |-> 0]
    /\ wg_left = [c \in Calls |-> 0]

WgRunning == component = "with_gate" /\ ~fatal

\* What func() can do: return a future that is not resolved yet, return a
\* future that is ready or failed already, or throw.
FuncOutcomes == {"pending", "ok", "failed", "threw"}

\* The continuation attached with finally(): [&g] { g.leave(); }.
finally_leave(c) ==
    /\ _count' = _count - 1
    /\ _stopped' = IF _count' = 0 /\ _stopped # "none" THEN "ready" ELSE _stopped
    /\ leavesSinceClose' = IF gate_is_closed THEN leavesSinceClose + 1
                           ELSE leavesSinceClose
    /\ wg_left' = [wg_left EXCEPT ![c] = wg_left[c] + 1]

\* with_gate(g, func): g.enter(), then func(), then finally() on the future
\* func returned.  On a future that is available already the continuation
\* runs within the call: the count goes up and down again.
with_gate ==
    /\ WgRunning
    /\ \E c \in Calls, f \in FuncOutcomes :
          /\ wg_state[c] = "none"
          /\ \A k \in Calls : wg_state[k] = "none" => c <= k
          /\ IF gate_is_closed
             THEN /\ wg_state' = [wg_state EXCEPT ![c] = "gate_closed"]
                  /\ Done("with_gate", "gate_closed_exception")
                  /\ UNCHANGED <<_count, _stopped, leavesSinceClose, wg_ran,
                                 wg_left>>
             ELSE /\ wg_ran' = [wg_ran EXCEPT ![c] = wg_ran[c] + 1]
                  /\ wg_state' = [wg_state EXCEPT ![c] =
                                    IF f = "pending" THEN "running" ELSE f]
                  /\ Done("with_gate", f)
                  /\ IF f \in {"ok", "failed"}
                     THEN /\ wg_left' = [wg_left EXCEPT ![c] = wg_left[c] + 1]
                          /\ UNCHANGED <<_count, _stopped, leavesSinceClose>>
                     ELSE /\ _count' = _count + 1
                          /\ UNCHANGED <<_stopped, leavesSinceClose, wg_left>>
    /\ UNCHANGED <<ringVars, sleepVars, abortVars, taskVars, pubVars, component, fatal,
                   _to_signal, st_alive, st_target, g_nextCb, g_invoked,
                   g_registered, g_cancelled, g_atClose, countAtClose,
                   closeRet>>

\* The future func returned is resolved, with a value or with an exception,
\* and the continuation attached with finally() runs.
func_resolves ==
    /\ WgRunning
    /\ \E c \in Calls, f \in {"ok", "failed"} :
          /\ wg_state[c] = "running"
          /\ wg_state' = [wg_state EXCEPT ![c] = f]
          /\ finally_leave(c)
          /\ Done("func_resolves", f)
    /\ UNCHANGED <<ringVars, sleepVars, abortVars, taskVars, pubVars, component, fatal,
                   wg_ran, _to_signal, st_alive, st_target, g_nextCb,
                   g_invoked, g_registered, g_cancelled, g_atClose,
                   countAtClose, closeRet>>

WgNext ==
    \/ with_gate
    \/ func_resolves
    \/ close

(***************************************************************************)
(* task                                                                    *)
(***************************************************************************)

MaxTasks == 2

Tasks == 1..MaxTasks

MaxGroup == 2

Groups == 0..MaxGroup

MaxRuns == 2

TaskInit ==
    /\ cur_sg = 0
    /\ task_alive = [t \in Tasks |-> FALSE]
    /\ _sg = [t \in Tasks |-> 0]
    /\ made_sg = [t \in Tasks |-> 0]
    /\ run_calls = [t \in Tasks |-> 0]
    /\ invocations = [t \in Tasks |-> 0]

TaskRunning == component = "task" /\ ~fatal

current_scheduling_group == cur_sg

group_current(t) == current_scheduling_group

\* task::group.
group(t) == _sg[t]

\* task::task(sg, func), reached from both make_task overloads.
task_ctor(t, sg) ==
    /\ ~task_alive[t]
    /\ \A k \in Tasks : ~task_alive[k] => t <= k
    /\ task_alive' = [task_alive EXCEPT ![t] = TRUE]
    /\ _sg' = [_sg EXCEPT ![t] = sg]
    /\ made_sg' = [made_sg EXCEPT ![t] = sg]
    /\ run_calls' = [run_calls EXCEPT ![t] = 0]
    /\ invocations' = [invocations EXCEPT ![t] = 0]

\* make_task(func).
make_task_current ==
    /\ TaskRunning
    /\ \E t \in Tasks : task_ctor(t, current_scheduling_group)
    /\ Done("make_task", "current")
    /\ UNCHANGED <<ringVars, sleepVars, abortVars, gateVars, wgVars, pubVars,
                   component, fatal, cur_sg>>

\* make_task(sg, func).
make_task ==
    /\ TaskRunning
    /\ \E t \in Tasks, sg \in Groups : task_ctor(t, sg)
    /\ Done("make_task", "given")
    /\ UNCHANGED <<ringVars, sleepVars, abortVars, gateVars, wgVars, pubVars,
                   component, fatal, cur_sg>>

\* The reactor moves on to the tasks of another scheduling group.
switch_group ==
    /\ TaskRunning
    /\ \E sg \in Groups : sg # cur_sg /\ cur_sg' = sg
    /\ Done("switch_group", "ok")
    /\ UNCHANGED <<ringVars, sleepVars, abortVars, gateVars, wgVars, pubVars,
                   component, fatal, task_alive, _sg, made_sg, run_calls,
                   invocations>>

\* task::run: { _func(); } - the invocations of _func after the call.
run(n) == n + 1

task_run ==
    /\ TaskRunning
    /\ \E t \in Tasks :
          /\ task_alive[t]
          /\ run_calls[t] < MaxRuns
          /\ run_calls' = [run_calls EXCEPT ![t] = run_calls[t] + 1]
          /\ invocations' = [invocations EXCEPT ![t] = run(invocations[t])]
    /\ Done("run", "ok")
    /\ UNCHANGED <<ringVars, sleepVars, abortVars, gateVars, wgVars, pubVars,
                   component, fatal, cur_sg, task_alive, _sg, made_sg>>

\* The task is destroyed (by the reactor, after it ran it).
destroy_task ==
    /\ TaskRunning
    /\ \E t \in Tasks :
          /\ task_alive[t]
          /\ task_alive' = [task_alive EXCEPT ![t] = FALSE]
          /\ _sg' = [_sg EXCEPT ![t] = 0]
          /\ made_sg' = [made_sg EXCEPT ![t] = 0]
          /\ run_calls' = [run_calls EXCEPT ![t] = 0]
          /\ invocations' = [invocations EXCEPT ![t] = 0]
    /\ Done("~task", "ok")
    /\ UNCHANGED <<ringVars, sleepVars, abortVars, gateVars, wgVars, pubVars,
                   component, fatal, cur_sg>>

TaskNext ==
    \/ make_task_current
    \/ make_task
    \/ switch_group
    \/ task_run
    \/ destroy_task

(***************************************************************************)
(* io_uring_submit, statement by statement, against a kernel that reads    *)
(* the submission ring at any time.  Plain stores reach the memory the     *)
(* kernel reads in program order, at any later time; a store with          *)
(* memory_order_release reaches it after every store that precedes it.     *)
(***************************************************************************)

PubInit ==
    /\ pc = "idle"
    /\ l_tail = 0
    /\ l_tail_next = 0
    /\ wbuf = <<>>
    /\ ahead = 0

\* The array after the stores of buf, oldest first, have reached it.
RECURSIVE Drain(_, _)
Drain(arr, buf) ==
    IF buf = <<>> THEN arr
    ELSE Drain([arr EXCEPT ![Head(buf).at] = Head(buf).val], Tail(buf))

store_relaxed(arr, buf, n) ==
    [index_array |-> arr, wbuf |-> buf, ahead |-> ahead - n]

\* ring.sq.tail->store(tail_next, std::memory_order_release), publishing n
\* positions: what the kernel can read once it has read the new tail.
store_release(arr, buf, n) ==
    [index_array |-> Drain(arr, buf), wbuf |-> <<>>,
     ahead |-> ahead + Len(buf) - n]

\* io_uring_submit up to the loop: the pending branch, or the locals.
submit_begin ==
    /\ RingUp
    /\ pc = "idle"
    /\ LET tail == sq_ktail
           redrive == USub(tail, sq_khead)
       IN IF pending /\ redrive # 0
          THEN /\ submit_pending(redrive)
               /\ UNCHANGED <<pc, l_tail, l_tail_next>>
          ELSE /\ pending' = FALSE
               /\ l_tail' = tail
               /\ l_tail_next' = tail
               /\ pc' = "loop"
               /\ ReportsNothing
               /\ Done("io_uring_submit", "loop")
               /\ UNCHANGED <<index_array, sqe_head, sq_ktail>>
    /\ UNCHANGED <<gateVars, abortVars, sleepVars, wgVars, taskVars,
                   component, fatal, r_state, params, sq_ring_size,
                   sq_ring_mask, cq_ring_size, sqe_tail, sq_khead, cq_khead,
                   cq_ktail, cqes, ring_fd, setup_fd, open_fds, mapped,
                   mmapCalls, munmapCalls, setupCalls, harvested, cq_log,
                   wbuf, ahead>>

\* One turn of the loop, or its end: the count submitted decides whether
\* the tail is stored.
submit_loop ==
    /\ RingUp
    /\ pc = "loop"
    /\ IF sqe_head < sqe_tail
       THEN /\ wbuf' = Append(wbuf, [at |-> BitAnd(l_tail_next, sq_ring_mask),
                                     val |-> BitAnd(sqe_head, sq_ring_mask),
                                     src |-> sqe_head])
            /\ sqe_head' = UInc(sqe_head)
            /\ l_tail_next' = UInc(l_tail_next)
            /\ Reports(Null, 0, published + 1, -1)
            /\ Done("io_uring_submit", "loop")
            /\ UNCHANGED pc
       ELSE /\ pc' = IF USub(l_tail_next, l_tail) # 0 THEN "store" ELSE "idle"
            /\ Reports(Null, 0, published, -1)
            /\ Done("io_uring_submit",
                    IF USub(l_tail_next, l_tail) # 0 THEN "loop" ELSE "ok")
            /\ UNCHANGED <<wbuf, sqe_head, l_tail_next>>
    /\ UNCHANGED <<gateVars, abortVars, sleepVars, wgVars, taskVars,
                   component, fatal, r_state, params, sq_ring_size,
                   sq_ring_mask, cq_ring_size, sqe_tail, pending, sq_khead,
                   sq_ktail, index_array, cq_khead, cq_ktail, cqes, ring_fd,
                   setup_fd, open_fds, mapped, mmapCalls, munmapCalls,
                   setupCalls, harvested, cq_log, l_tail, ahead>>

\* The store of the new tail.
submit_store_tail ==
    /\ RingUp
    /\ pc = "store"
    /\ LET r == store_release(index_array, wbuf, USub(l_tail_next, l_tail))
       IN /\ index_array' = r.index_array
          /\ wbuf' = r.wbuf
          /\ ahead' = r.ahead
    /\ sq_ktail' = l_tail_next
    /\ pc' = "enter"
    /\ Reports(Null, 0, published, -1)
    /\ Done("io_uring_submit", "stored")
    /\ UNCHANGED <<gateVars, abortVars, sleepVars, wgVars, taskVars,
                   component, fatal, r_state, params, sq_ring_size,
                   sq_ring_mask, cq_ring_size, sqe_head, sqe_tail, pending,
                   sq_khead, cq_khead, cq_ktail, cqes, ring_fd, setup_fd,
                   open_fds, mapped, mmapCalls, munmapCalls, setupCalls,
                   harvested, cq_log, l_tail, l_tail_next>>

\* do_io_uring_enter(ring, submitted) and the return.
submit_enter ==
    /\ RingUp
    /\ pc = "enter"
    /\ \E ok \in EnterOutcomes :
          /\ do_io_uring_enter(ok)
          /\ Reports(Null, IF ok THEN USub(l_tail_next, l_tail) ELSE 0,
                     published, USub(l_tail_next, l_tail))
    /\ pc' = "idle"
    /\ UNCHANGED <<gateVars, abortVars, sleepVars, wgVars, taskVars,
                   component, fatal, r_state, params, sq_ring_size,
                   sq_ring_mask, cq_ring_size, sqe_head, sqe_tail, sq_khead,
                   sq_ktail, index_array, cq_khead, cq_ktail, cqes, ring_fd,
                   setup_fd, open_fds, mapped, mmapCalls, munmapCalls,
                   setupCalls, harvested, cq_log, l_tail, l_tail_next, wbuf,
                   ahead>>

\* The oldest plain store still on its way reaches memory.
store_lands ==
    /\ RingUp
    /\ wbuf # <<>>
    /\ index_array' = [index_array EXCEPT ![Head(wbuf).at] = Head(wbuf).val]
    /\ wbuf' = Tail(wbuf)
    /\ ahead' = ahead + 1
    /\ UNCHANGED <<gateVars, abortVars, sleepVars, wgVars, taskVars,
                   component, fatal, lastOp, lastRes, r_state, params,
                   sq_ring_size, sq_ring_mask, cq_ring_size, sqe_head,
                   sqe_tail, pending, sq_khead, sq_ktail, cq_khead, cq_ktail,
                   cqes, ring_fd, setup_fd, open_fds, mapped, mmapCalls,
                   munmapCalls, setupCalls, enterArg, sqeRet, submitRet,
                   published, harvested, cq_log, pc, l_tail, l_tail_next>>

\* The caller acquires slots between calls of io_uring_submit only.
get_sqe_between_submits == pc = "idle" /\ io_uring_get_sqe

PublishNext ==
    \/ get_sqe_between_submits
    \/ submit_begin
    \/ submit_loop
    \/ submit_store_tail
    \/ submit_enter
    \/ store_lands
    \/ kernel_consume

(***************************************************************************)
(* Moving handles: signal_target and subscription objects move-constructed *)
(* from and move-assigned to one another.                                  *)
(***************************************************************************)

\* How a move ends; the name of the step tells whether the handle moved
\* from was linked.
MoveDone(op, linked, L) ==
    /\ fatal' = L.segv
    /\ Done(IF linked THEN op ELSE op \o "_unlinked",
            IF L.segv THEN "fault" ELSE "ok")

\* The callbacks registered once handle this has given up its own.
Dropped(registered, target, this) == Without(registered, target[this])

\* signal_target b(std::move(a)): a new handle object is move-constructed
\* from a live one, which is left without a callback.
move_signal_target ==
    /\ GateRunning
    /\ \E this \in Handles, other \in Handles :
          /\ this = FirstFree(st_alive)
          /\ st_alive[other]
          /\ st_alive' = [st_alive EXCEPT ![this] = TRUE]
          /\ st_target' = [st_target EXCEPT ![this] = st_target[other],
                                            ![other] = 0]
          /\ _to_signal' = signal_target_move_ctor(_to_signal, this, other)
          /\ MoveDone("signal_target_move", is_linked(_to_signal, other),
                      _to_signal')
    /\ UNCHANGED <<ringVars, sleepVars, abortVars, wgVars, taskVars, pubVars,
                   component, _count, _stopped, g_nextCb, g_invoked,
                   g_registered, g_cancelled, g_atClose, countAtClose,
                   leavesSinceClose, closeRet>>

\* a = std::move(b) on two live signal_target objects.
move_assign_signal_target ==
    /\ GateRunning
    /\ \E this \in Handles, other \in Handles :
          /\ st_alive[this]
          /\ st_alive[other]
          /\ this # other
          /\ st_target' = [st_target EXCEPT ![this] = st_target[other],
                                            ![other] = 0]
          /\ _to_signal' = signal_target_move_assign(_to_signal, this, other)
          /\ g_registered' = Dropped(g_registered, st_target, this)
          /\ g_cancelled' = IF st_target[this] \in Range(g_invoked)
                            THEN g_cancelled
                            ELSE g_cancelled \cup ({st_target[this]} \ {0})
          /\ MoveDone("signal_target_move_assign",
                      is_linked(_to_signal, other), _to_signal')
    /\ UNCHANGED <<ringVars, sleepVars, abortVars, wgVars, taskVars, pubVars,
                   component, _count, _stopped, st_alive, g_nextCb, g_invoked,
                   g_atClose, countAtClose, leavesSinceClose, closeRet>>

\* The list is a circle through its root, and the hooks outside it are
\* unlinked.  What a program does with a list that is not is left open.
WellFormed(L) ==
    LET on == Range(Iterate(L)) \cup {Root}
    IN /\ ~L.segv
       /\ \A n \in on : L.next[n] \in on /\ L.prev[L.next[n]] = n
       /\ \A n \in Nodes \ on : L.next[n] = Null /\ L.prev[n] = Null

\* subscription(subscription&& other): the hook of the new object is
\* constructed unlinked, then swap_nodes(other, this).
subscription_move_ctor(L, this, other) == swap_nodes(init(L, this), other, this)

\* subscription b(std::move(a)).
move_subscription ==
    /\ AbortRunning
    /\ WellFormed(_subscriptions)
    /\ \E this \in Handles, other \in Handles :
          /\ this = FirstFree(sub_alive)
          /\ sub_alive[other]
          /\ sub_alive' = [sub_alive EXCEPT ![this] = TRUE]
          /\ sub_target' = [sub_target EXCEPT ![this] = sub_target[other],
                                              ![other] = 0]
          /\ _subscriptions' = subscription_move_ctor(_subscriptions, this, other)
          /\ MoveDone("subscription_move", is_linked(_subscriptions, other),
                      _subscriptions')
    /\ UNCHANGED <<ringVars, sleepVars, gateVars, wgVars, taskVars, pubVars,
                   component, engaged, resubscribing, a_nextCb, a_invoked,
                   a_registered, a_cancelled, a_atFire, a_late, fired>>

\* a = std::move(b) on two live subscription objects.
move_assign_subscription ==
    /\ AbortRunning
    /\ WellFormed(_subscriptions)
    /\ \E this \in Handles, other \in Handles :
          /\ sub_alive[this]
          /\ sub_alive[other]
          /\ this # other
          /\ sub_target' = [sub_target EXCEPT ![this] = sub_target[other],
                                              ![other] = 0]
          /\ _subscriptions' = subscription_move_assign(_subscriptions, this, other)
          /\ a_registered' = Dropped(a_registered, sub_target, this)
          /\ a_cancelled' = IF sub_target[this] \in Range(a_invoked)
                            THEN a_cancelled
                            ELSE a_cancelled \cup ({sub_target[this]} \ {0})
          /\ MoveDone("subscription_move_assign",
                      is_linked(_subscriptions, other), _subscriptions')
    /\ UNCHANGED <<ringVars, sleepVars, gateVars, wgVars, taskVars, pubVars,
                   component, engaged, sub_alive, resubscribing, a_nextCb,
                   a_invoked, a_atFire, a_late, fired>>


\* subscribe() before the abort, of a callback that does not subscribe.
subscribe_plain ==
    WellFormed(_subscriptions) /\ engaged /\ subscribe /\ resubscribing' = {}

\* The first request_abort().
request_abort_first == WellFormed(_subscriptions) /\ engaged /\ request_abort

\* ~subscription.
destroy_sound == WellFormed(_subscriptions) /\ destroy_subscription

AbortMoveNext ==
    \/ subscribe_plain
    \/ destroy_sound
    \/ move_subscription
    \/ move_assign_subscription
    \/ request_abort_first

GateMoveNext ==
    \/ signal_on_close
    \/ destroy_signal_target
    \/ move_signal_target
    \/ move_assign_signal_target
    \/ close

MoveNext == GateMoveNext \/ AbortMoveNext

Init ==
    /\ component \in {"gate", "abort_source"}
    /\ fatal = FALSE
    /\ lastOp = "none"
    /\ lastRes = "none"
    /\ GateInit
    /\ AbortInit
    /\ RingInit
    /\ ring_fd = 0
    /\ SleepInit
    /\ WgInit
    /\ TaskInit
    /\ PubInit

Next == GateNext \/ AbortNext

Spec == Init /\ [][Next]_vars

\* The ring on its own: one io_uring, its caller and the kernel.
InitRing ==
    /\ component = "ring"
    /\ fatal = FALSE
    /\ lastOp = "none"
    /\ lastRes = "none"
    /\ GateInit
    /\ AbortInit
    /\ RingInit
    /\ SleepInit
    /\ WgInit
    /\ TaskInit
    /\ PubInit

SpecRing == InitRing /\ [][RingNext]_vars

\* The completion side on its own: a ring that has been set up, the kernel
\* posting records and the caller harvesting them.
InitCompletion ==
    /\ component = "completion"
    /\ fatal = FALSE
    /\ lastOp = "io_uring_queue_init"
    /\ lastRes = "ok"
    /\ GateInit
    /\ AbortInit
    /\ \E entries \in EntriesSet, layout \in KernelLayouts :
          RingAfterInit(entries, layout)
    /\ SleepInit
    /\ WgInit
    /\ TaskInit
    /\ PubInit

SpecCompletion == InitCompletion /\ [][CompletionNext]_vars

\* Timed waits on a gate: callers of sleep_abortable, the reactor's timers
\* and the closing of the gate.
InitSleep ==
    /\ component = "sleep"
    /\ fatal = FALSE
    /\ lastOp = "none"
    /\ lastRes = "none"
    /\ GateInit
    /\ AbortInit
    /\ RingInit
    /\ ring_fd = 0
    /\ SleepInit
    /\ WgInit
    /\ TaskInit
    /\ PubInit

SpecSleep == InitSleep /\ [][SleepNext]_vars

\* Calls of with_gate on one gate, and the closing of the gate.
InitWithGate ==
    /\ component = "with_gate"
    /\ fatal = FALSE
    /\ lastOp = "none"
    /\ lastRes = "none"
    /\ GateInit
    /\ AbortInit
    /\ RingInit
    /\ ring_fd = 0
    /\ SleepInit
    /\ WgInit
    /\ TaskInit
    /\ PubInit

SpecWithGate == InitWithGate /\ [][WgNext]_vars

\* Tasks: their makers, the reactor that runs and destroys them.
InitTask ==
    /\ component = "task"
    /\ fatal = FALSE
    /\ lastOp = "none"
    /\ lastRes = "none"
    /\ GateInit
    /\ AbortInit
    /\ RingInit
    /\ ring_fd = 0
    /\ SleepInit
    /\ WgInit
    /\ TaskInit
    /\ PubInit

SpecTask == InitTask /\ [][TaskNext]_vars

\* io_uring_submit in steps on a ring that has been set up, the caller
\* acquiring slots between the calls and the kernel reading the ring.
InitPublish ==
    /\ component = "publish"
    /\ fatal = FALSE
    /\ lastOp = "io_uring_queue_init"
    /\ lastRes = "ok"
    /\ GateInit
    /\ AbortInit
    /\ \E entries \in EntriesSet, layout \in KernelLayouts :
          RingAfterInit(entries, layout)
    /\ SleepInit
    /\ WgInit
    /\ TaskInit
    /\ PubInit

SpecPublish == InitPublish /\ [][PublishNext]_vars

\* Handles of a gate, or of an abort_source, that are moved about.
InitMove ==
    /\ component \in {"gate_move", "abort_move"}
    /\ fatal = FALSE
    /\ lastOp = "none"
    /\ lastRes = "none"
    /\ GateInit
    /\ AbortInit
    /\ RingInit
    /\ ring_fd = 0
    /\ SleepInit
    /\ WgInit
    /\ TaskInit
    /\ PubInit

SpecMove == InitMove /\ [][MoveNext]_vars

\* A ring that has been set up and whose descriptor is the one
\* io_uring_setup returned, driven by a caller that keeps calling
\* io_uring_submit, with an io_uring_enter that succeeds in the end and a
\* kernel that keeps taking published entries.
InitLive ==
    /\ component = "live"
    /\ fatal = FALSE
    /\ lastOp = "io_uring_queue_init"
    /\ lastRes = "ok"
    /\ GateInit
    /\ AbortInit
    /\ \E entries \in EntriesSet, layout \in KernelLayouts :
          RingAfterInit(entries, layout)
    /\ ring_fd = setup_fd
    /\ SleepInit
    /\ WgInit
    /\ TaskInit
    /\ PubInit

LiveNext ==
    \/ io_uring_get_sqe
    \/ io_uring_submit
    \/ kernel_consume

\* A call of io_uring_submit that does not end in a system_error.
submit_succeeds == io_uring_submit /\ lastRes' = "ok"

SpecLive ==
    /\ InitLive
    /\ [][LiveNext]_vars
    /\ WF_vars(submit_succeeds)
    /\ WF_vars(kernel_consume)
\* ----------------------------------------------------------------- claims
\* The callbacks of the handles linked into a list, in list order.
Targets(L, target) == [i \in 1..Len(Iterate(L)) |-> target[Iterate(L)[i]]]

\* Callback numbers are given in registration order.
Increasing(s) == \A i, j \in 1..Len(s) : i < j => s[i] < s[j]

\* C1: when close() is called with N > 0 requests in flight, the future it
\* returned is pending at return, is still pending after each of the first
\* N-1 leave() calls that follow, and is ready exactly from the N-th on.
C1_DrainAtNthLeave ==
    (component = "gate" /\ countAtClose > 0) =>
        /\ closeRet = "pending"
        /\ leavesSinceClose <= countAtClose
        /\ _count = countAtClose - leavesSinceClose
        /\ (_stopped = "ready") <=> (leavesSinceClose = countAtClose)

C1_Witness ==
    /\ countAtClose = 2
    /\ leavesSinceClose = 2
    /\ lastOp = "leave"
    /\ _stopped = "ready"

\* C2: when close() is called with no request in flight, the future it
\* returns is ready at return; no leave() is needed.
C2_CloseIdleReady ==
    (component = "gate" /\ countAtClose = 0) =>
        /\ closeRet = "ready"
        /\ _stopped = "ready"
        /\ leavesSinceClose = 0

C2_Witness ==
    /\ lastOp = "close"
    /\ lastRes = "ok"
    /\ countAtClose = 0
    /\ closeRet = "ready"

\* C3: on a closed gate enter() and check() throw gate_closed_exception and
\* change neither _count nor _stopped; on an open gate enter() succeeds and
\* adds exactly one to _count, and check() succeeds and changes nothing.
C3_EnterCheck ==
    [][/\ (lastOp' \in {"enter", "check"} /\ gate_is_closed) =>
             /\ lastRes' = "gate_closed_exception"
             /\ UNCHANGED gateVars
       /\ (lastOp' = "enter" /\ ~gate_is_closed) =>
             /\ lastRes' = "ok"
             /\ _count' = _count + 1
             /\ UNCHANGED _stopped
       /\ (lastOp' = "check" /\ ~gate_is_closed) =>
             /\ lastRes' = "ok"
             /\ UNCHANGED gateVars]_vars

C3_Witness ==
    /\ lastOp = "check"
    /\ lastRes = "gate_closed_exception"
    /\ _count > 0
    /\ _stopped = "pending"

\* The barrier's state: Open until close(), Closing while requests are in
\* flight, Drained once the drain future is ready.
GateState ==
    IF _stopped = "none" THEN "Open"
    ELSE IF _stopped = "pending" THEN "Closing" ELSE "Drained"

\* C4: once _stopped is set it stays set, _count never grows while it is set,
\* and the state only moves along Open -> Closing -> Drained: Open is left
\* only by close(), which sets the marker (Closing) and, when _count is
\* already zero, resolves the future in the same call; Closing is left only
\* by the leave() that brings _count to zero; Drained is never left, and the
\* gate is Drained exactly when it is closed with _count zero.
C4_StateMachine ==
    [][/\ gate_is_closed => gate_is_closed'
       /\ gate_is_closed => _count' <= _count
       /\ (GateState' = "Drained") <=> (gate_is_closed' /\ _count' = 0)
       /\ \/ GateState' = GateState
          \/ /\ GateState = "Open"
             /\ lastOp' = "close"
             /\ GateState' = IF _count = 0 THEN "Drained" ELSE "Closing"
          \/ /\ GateState = "Closing"
             /\ GateState' = "Drained"
             /\ lastOp' = "leave"
             /\ _count = 1]_vars

C4_Witness ==
    /\ GateState = "Drained"
    /\ countAtClose = 2
    /\ lastOp = "enter"
    /\ lastRes = "gate_closed_exception"

\* C5: close() runs every listener registered when it is called exactly once,
\* in registration order, before it returns, with requests in flight or not;
\* nothing is run later.
C5_CloseNotifiesAll ==
    (component = "gate" /\ gate_is_closed) =>
        /\ g_invoked = g_atClose
        /\ Increasing(g_invoked)

C5_Witness ==
    /\ lastOp = "close"
    /\ lastRes = "ok"
    /\ _count > 0
    /\ Len(g_invoked) = 2
    /\ g_cancelled # {}

\* C6: a callback whose handle was destroyed or reset before it ran is never
\* run; until the firing the list holds exactly the other callbacks, in their
\* order; every callback whose handle is alive at close() / request_abort()
\* is run by it.
C6_Unregister ==
    /\ g_cancelled \cap Range(g_invoked) = {}
    /\ a_cancelled \cap Range(a_invoked) = {}
    /\ (component = "gate" /\ ~fatal) =>
           Targets(_to_signal, st_target) = g_registered
    /\ (component = "gate" /\ gate_is_closed) =>
           Range(g_atClose) \subseteq Range(g_invoked)
    /\ (component = "abort_source" /\ engaged /\ ~fatal) =>
           Targets(_subscriptions, sub_target) = a_registered
    /\ (component = "abort_source" /\ fired > 0) =>
           Range(a_atFire) \subseteq Range(a_invoked)

C6_Witness ==
    /\ gate_is_closed
    /\ Cardinality(g_cancelled) = 2
    /\ g_invoked = <<2>>

\* C7: a second close() aborts the process: the first close()'s promise and
\* future are not replaced or resolved again and no listener runs again.
C7_SecondCloseFatal ==
    [][(lastOp' = "close" /\ gate_is_closed) =>
           /\ fatal'
           /\ lastRes' = "abort"
           /\ UNCHANGED gateVars]_vars

C7_Witness ==
    /\ fatal
    /\ lastOp = "close"
    /\ _stopped = "pending"
    /\ Len(g_invoked) = 2

\* C8: before the first request_abort() abort_requested() is false and no
\* callback has run; after it abort_requested() is true for good, and the
\* callbacks subscribed when it was called have each run exactly once, in
\* subscription order.
C8_RequestAbort ==
    component = "abort_source" =>
        /\ fired = 0 => (~abort_requested /\ a_invoked = <<>>)
        /\ fired > 0 =>
              /\ abort_requested
              /\ Restrict(a_invoked, Range(a_atFire)) = a_atFire
              /\ Increasing(a_atFire)

C8_Witness ==
    /\ fired = 1
    /\ lastOp = "request_abort"
    /\ Len(a_atFire) = 2
    /\ a_cancelled # {}

\* C9 (as claimed): subscribe() on an abort_source that has fired is
\* rejected: nothing is linked, no callback is stored, nothing runs.
C9_SubscribeAfterAbortRejected ==
    [][(lastOp' = "subscribe" /\ abort_requested) =>
           UNCHANGED <<_subscriptions, engaged, sub_alive, sub_target,
                       a_invoked>>]_vars

\* C10 (as claimed): a subscribe() made by a callback that runs inside
\* request_abort() adds no subscriber, so request_abort() runs exactly the
\* callbacks that were subscribed when it was called.
C10_NoSubscribeWhileFiring ==
    [][(lastOp' = "request_abort" /\ ~abort_requested) =>
           a_invoked' = a_invoked \o a_registered]_vars

\* ------------------------------------------------------------------------
\* Claims about the io_uring wrapper, checked under SpecRing
\* ------------------------------------------------------------------------

\* Filled and not yet handed to io_uring_submit.
Unsubmitted == USub(sqe_tail, sqe_head)

\* C11 (as claimed): a ring set up with capacity C never holds more than C
\* filled-but-unsubmitted slots, because io_uring_get_sqe returns nullptr
\* once sqe_tail - sqe_head has reached C.
C11_CapacityBound ==
    r_state = "up" => Unsubmitted <= params.sq_entries

\* Everything io_uring_submit published has been taken by the kernel after
\* an io_uring_enter that succeeded.
Drained == ~pending /\ sq_ktail # 0 /\ sq_khead = sq_ktail

\* C12 (as claimed): once a submit has succeeded and the kernel has consumed
\* all it published, the full capacity C is available again: io_uring_get_sqe
\* succeeds for the next C calls and returns nullptr for the one after them.
C12_CapacityAgainAfterDrain ==
    [][(lastOp' = "io_uring_get_sqe" /\ r_state = "up" /\ Drained) =>
           ((lastRes' = "ok") <=> (Unsubmitted < params.sq_entries))]_vars

\* C13 (as claimed): an io_uring_submit that returns reports the number of
\* slots it published in that call, on the normal path and on the path
\* that re-drives a pending submission.
C13_SubmitReportsPublished ==
    (lastOp = "io_uring_submit" /\ lastRes = "ok") => submitRet = published

\* C14: when the io_uring_enter issued by io_uring_submit fails, the call
\* ends in a system_error with the pending flag set; the flag is clear after
\* a successful io_uring_queue_init and after every io_uring_enter that
\* succeeds.
C14_PendingTracksEnter ==
    /\ (lastOp = "io_uring_submit" /\ lastRes = "system_error") =>
           (pending /\ enterArg > 0)
    /\ (lastOp = "io_uring_submit" /\ lastRes = "ok" /\ enterArg # -1) =>
           ~pending
    /\ (lastOp = "io_uring_queue_init" /\ lastRes = "ok") => ~pending

C14_Witness ==
    /\ lastOp = "io_uring_submit"
    /\ lastRes = "system_error"
    /\ pending
    /\ published > 0

\* The slots whose index lies between the kernel's head and the published
\* tail of the submission ring: the kernel has yet to read them.
PublishedUnconsumed ==
    {index_array[BitAnd((sq_khead + i) % Wrap, sq_ring_mask)] :
        i \in 0..(USub(sq_ktail, sq_khead) - 1)}

\* C15 (as claimed): io_uring_get_sqe never returns a slot whose index has
\* been published through the submission tail and that the kernel has not
\* consumed yet, also after an io_uring_submit whose io_uring_enter failed.
C15_NoReuseWhilePublished ==
    (lastOp = "io_uring_get_sqe" /\ lastRes = "ok") =>
        sqeRet \notin PublishedUnconsumed

\* C16: io_uring_queue_init called with the SQPOLL flag is rejected before
\* the setup system call: the process stops on the assertion, io_uring_setup
\* is not called, nothing is mapped and no descriptor is opened.
C16_SqpollRejectedFirst ==
    [][(\E entries \in EntriesSet, layout \in KernelLayouts,
           failAt \in FailPoints :
           io_uring_queue_init(entries, TRUE, layout, failAt)) =>
          /\ fatal'
          /\ lastRes' = "assert"
          /\ setupCalls' = setupCalls
          /\ UNCHANGED <<r_state, mapped, mmapCalls, open_fds, setup_fd>>]_vars

C16_Witness ==
    lastOp = "io_uring_queue_init" /\ lastRes = "assert" /\ setupCalls = 0

\* Every mapping made has been undone by a munmap of the same region at its
\* base with the length it was mapped with.
Unwound ==
    /\ Len(munmapCalls) = Len(mmapCalls)
    /\ \A c \in Range(mmapCalls) :
          \E u \in Range(munmapCalls) :
             u.region = c.region /\ u.off = 0 /\ u.len = c.len

\* C17: when io_uring_setup or one of the three mmap calls fails,
\* io_uring_queue_init ends in a system_error and leaves no region mapped:
\* each region mapped earlier in the call has been unmapped with the base
\* and the length it was mapped with.
C17_SetupAllOrNothing ==
    r_state = "failed" =>
        /\ lastOp = "io_uring_queue_init"
        /\ lastRes = "system_error"
        /\ mapped = {}
        /\ Unwound

C17_Witness ==
    /\ r_state = "failed"
    /\ Len(mmapCalls) = 2
    /\ Len(munmapCalls) = 2
    /\ mapped = {}

\* C18 (as claimed): io_uring_queue_exit after a successful
\* io_uring_queue_init releases exactly what the init acquired: each of the
\* three regions is unmapped at its base with the length it was mapped
\* with, and the descriptor io_uring_setup returned is closed; afterwards
\* no region is mapped and no descriptor but the standard ones is open.
C18_TeardownReleasesAll ==
    r_state = "exited" =>
        /\ Unwound
        /\ mapped = {}
        /\ open_fds = StdFds

\* ------------------------------------------------------------------------
\* Claims about harvesting, checked under SpecCompletion
\* ------------------------------------------------------------------------

\* C19: the batch io_uring_get_completion returns the records between the
\* completion head and the tail the kernel published, in the order the
\* kernel posted them, and advances the head by exactly the number of
\* records it returned; with no record available it returns none and
\* leaves the head where it was.
C19_HarvestInOrder ==
    [][lastOp' = "io_uring_get_completion" =>
          /\ harvested' = cq_log
          /\ cq_khead' = (cq_khead + Len(harvested')) % Wrap
          /\ cq_khead' = cq_ktail
          /\ UNCHANGED <<cq_ktail, cqes>>]_vars

C19_Witness ==
    /\ lastOp = "io_uring_get_completion"
    /\ Len(harvested) = 2
    /\ harvested[1] > harvested[2]
    /\ cq_khead = 1

\* ------------------------------------------------------------------------
\* Claims about sleep_abortable, checked under SpecSleep
\* ------------------------------------------------------------------------

Resolved == {"value", "sleep_aborted"}

\* C20: what comes first decides a wait.  A wait started on a closed gate
\* is resolved with sleep_aborted at once, with no timer armed and no
\* listener registered; when the gate closes while the timer is armed the
\* timer is cancelled and the wait resolves with sleep_aborted; when the
\* timer fires first the wait resolves with success; and a resolved wait
\* keeps its outcome, whatever follows.
C20_FirstEventDecides ==
    [][\A h \in Handles :
          /\ (done[h] = "none" /\ done'[h] # "none" /\ gate_is_closed) =>
                 /\ done'[h] = "sleep_aborted"
                 /\ tmr'[h] = "none"
                 /\ UNCHANGED <<_to_signal, sleeper>>
          /\ (done[h] = "none" /\ done'[h] # "none" /\ ~gate_is_closed) =>
                 /\ done'[h] = "pending"
                 /\ tmr'[h] = "armed"
          /\ (tmr[h] = "armed" /\ gate_is_closed') =>
                 /\ tmr'[h] = "cancelled"
                 /\ done'[h] = "sleep_aborted"
          /\ (tmr[h] = "armed" /\ tmr'[h] = "fired") => done'[h] = "value"
          /\ done[h] \in Resolved => done'[h] = done[h]]_vars

\* One wait succeeded before the gate closed, one was cut short by the
\* close, one was started after it.
C20_Witness ==
    /\ gate_is_closed
    /\ \E a, b, c \in Handles :
          /\ done[a] = "value" /\ tmr[a] = "fired"
          /\ done[b] = "sleep_aborted" /\ tmr[b] = "cancelled"
          /\ done[c] = "sleep_aborted" /\ tmr[c] = "none"

\* ---- timed waits, continued ----

\* C21: in every interleaving of the expiry of the timer and the closing of
\* the gate, a timed wait is resolved exactly once, with success or with
\* sleep_aborted: its future is never resolved a second time, and it is not
\* left unresolved once its timer has expired or the gate has been closed.
C21_ExactlyOneOutcome ==
    component = "sleep" =>
        \A h \in Handles :
            /\ resolutions[h] <= 1
            /\ (done[h] \in Resolved) <=> (resolutions[h] = 1)
            /\ done[h] = "pending" => (tmr[h] = "armed" /\ ~gate_is_closed)

\* A wait whose timer expired first and whose close listener then ran.
C21_Witness ==
    /\ component = "sleep"
    /\ \E h \in sleeper :
          /\ done[h] = "value"
          /\ tmr[h] = "fired"
          /\ st_target[h] \in Range(g_invoked)
          /\ resolutions[h] = 1

\* The waits that were resolved and whose sleeper has been destroyed.
Consumed == {h \in Handles : done[h] \in Resolved /\ h \notin sleeper}

ConsumedReleased ==
    \A h \in Consumed :
        /\ h \notin Range(Iterate(_to_signal))
        /\ ~st_alive[h]
        /\ tmr[h] # "armed"

ConsumedUntouched ==
    /\ \A h \in Consumed :
          /\ tmr'[h] = tmr[h]
          /\ done'[h] = done[h]
          /\ resolutions'[h] = resolutions[h]
    /\ Range(g_invoked') \ Range(g_invoked)
          \subseteq {st_target[k] : k \in sleeper}

\* C22: a timed wait leaks nothing: once it is resolved and its sleeper is
\* destroyed, its close listener is no longer registered with the gate and
\* its timer is not armed, so a later close() runs no callback of that wait
\* and no timer callback of it runs.
C22_NothingLeaks == []ConsumedReleased /\ [][ConsumedUntouched]_vars

\* The gate is closed after a wait was resolved by its timer and consumed.
C22_Witness ==
    /\ component = "sleep"
    /\ lastOp = "close"
    /\ ~fatal
    /\ \E h \in Consumed : tmr[h] = "fired"
    /\ g_invoked # <<>>

\* ---- with_gate ----

\* C23: with_gate keeps enter and leave balanced: on a closed gate it fails
\* with gate_closed_exception without running func and without changing
\* the count; otherwise it runs func exactly once and calls leave() exactly
\* once when the work of func has ended, in success or in failure, so that
\* the count holds exactly the calls whose work has not ended.
C23_EnterLeaveBalanced ==
    component = "with_gate" =>
        /\ _count = Cardinality({c \in Calls : wg_state[c] = "running"})
        /\ \A c \in Calls :
              /\ wg_state[c] = "gate_closed" => (wg_ran[c] = 0 /\ wg_left[c] = 0)
              /\ wg_state[c] \in {"running", "ok", "failed", "threw"}
                    => wg_ran[c] = 1
              /\ wg_state[c] = "running" => wg_left[c] = 0
              /\ wg_state[c] \in {"ok", "failed", "threw"} => wg_left[c] = 1

\* ---- task ----

\* C24: a task reports, for as long as it exists, the scheduling group it
\* was made with - the group current when it was made if none was given,
\* whatever group is current later - and every call of run() invokes its
\* callback exactly once.
C24_GroupFixedRunInvokesOnce ==
    component = "task" =>
        \A t \in Tasks :
            task_alive[t] =>
                /\ group(t) = made_sg[t]
                /\ invocations[t] = run_calls[t]

\* A task made under one group is run while another group is current.
C24_Witness ==
    /\ component = "task"
    /\ lastOp = "run"
    /\ \E t \in Tasks :
          /\ task_alive[t]
          /\ run_calls[t] = 1
          /\ made_sg[t] # cur_sg

\* ---- submission ring, continued ----

\* C25: io_uring_submit on a ring whose pending flag is set and whose
\* submission tail is k > 0 entries ahead of the kernel's head issues
\* io_uring_enter for exactly k entries and leaves the index array, the
\* submission tail, sqe_head and sqe_tail as they were: slots acquired since
\* the failed call are not published by it.
C25_RecoveryRedrivesOnly ==
    [][(RingUp /\ pending /\ sq_ktail # sq_khead
            /\ lastOp' = "io_uring_submit")
        => (/\ enterArg' = USub(sq_ktail, sq_khead)
            /\ published' = 0
            /\ UNCHANGED <<index_array, sq_ktail, sqe_head, sqe_tail>>)]_vars

\* A recovery call has driven the published entries again while a slot
\* acquired after the failed call is still unpublished.
C25_Witness ==
    /\ lastOp = "io_uring_submit"
    /\ enterArg > 0
    /\ published = 0
    /\ Unsubmitted # 0

\* C26: whatever the interleaving of io_uring_submit with the kernel's
\* reading of the submission ring, the index entries of all positions
\* before the tail the kernel can read have reached memory and name slots
\* acquired before that call: the index stores come before the store of the
\* tail, and io_uring_enter comes after it.
C26_IndexBeforeTail ==
    component = "publish" =>
        /\ ahead >= 0
        /\ wbuf # <<>> => (pc \in {"loop", "store"} /\ sq_ktail = l_tail)
        /\ \A i \in 1..Len(wbuf) :
              /\ wbuf[i].val = BitAnd(wbuf[i].src, sq_ring_mask)
              /\ USub(sqe_tail, wbuf[i].src) \in 1..sq_ring_size
        /\ pc = "enter" => (sq_ktail = l_tail_next /\ wbuf = <<>>)

\* The kernel has read all that the stored tail publishes before the call
\* has reached io_uring_enter.
C26_Witness ==
    /\ component = "publish"
    /\ pc = "enter"
    /\ lastOp = "kernel_consume"
    /\ sq_khead = sq_ktail
    /\ USub(l_tail_next, l_tail) > 1

\* C27: the cursors the kernel owns are never written from user space:
\* io_uring_get_sqe writes sqe_tail only, io_uring_submit writes only the
\* index array, the submission tail, sqe_head and the pending flag, and the
\* harvest of completions leaves the submission head and the completion
\* tail alone as well.
C27_CursorOwnership ==
    [][/\ lastOp' = "io_uring_get_sqe" =>
              UNCHANGED <<sq_khead, cq_ktail, sqe_head, pending, sq_ktail,
                          index_array, cq_khead, cqes>>
       /\ lastOp' = "io_uring_submit" =>
              UNCHANGED <<sq_khead, cq_ktail, sqe_tail, cq_khead, cqes>>
       /\ lastOp' = "io_uring_get_completion" =>
              UNCHANGED <<sq_khead, cq_ktail>>]_vars

\* io_uring_submit has published entries on a ring whose kernel has read
\* some earlier entries and not yet all of them.
C27_Witness ==
    /\ component = "ring"
    /\ lastOp = "io_uring_submit"
    /\ published > 0
    /\ sq_khead # 0
    /\ USub(sq_ktail, sq_khead) > published

\* ---- moving handles ----

MoveOps ==
    {"signal_target_move", "signal_target_move_assign", "subscription_move",
     "subscription_move_assign"}

\* The list holds exactly the callbacks that are registered, in their order.
\* (For an abort_source: as long as no callback subscribed from within
\* request_abort() and no subscription was made after it, see C9 and C10.)
ListConsistent ==
    IF component = "gate_move"
    THEN Targets(_to_signal, st_target) = g_registered
    ELSE /\ Targets(_subscriptions, sub_target) = a_registered
         /\ resubscribing = {}
         /\ a_late = {}

\* C28: moving a linked handle, by move-construction or move-assignment, of
\* a gate::signal_target or an abort_source::subscription, hands the
\* registration over and disturbs nothing else: afterwards the list holds
\* the moved callback at its old position, the other callbacks in their
\* order, and no longer the callback the assigned-to handle had held.
C28_MoveTransfersRegistration ==
    [][(lastOp' \in MoveOps /\ ListConsistent)
        => (~fatal' /\ ListConsistent')]_vars

\* ---- submission ring: publication ----

\* io_uring_submit has just taken its publishing path (not the re-drive of
\* what a failed call had published).
PublishingPathTaken ==
    lastOp = "io_uring_submit" /\ ~(enterArg > 0 /\ published = 0)

\* C29: across io_uring_get_sqe and io_uring_submit calls, failed enters
\* and recovery calls included, every slot acquired is published through
\* the submission tail exactly once and in acquisition order: when
\* io_uring_submit returns or fails sqe_head equals the published tail, and
\* after its publishing path no acquired slot is left unpublished.
C29_PublishedExactlyOnce ==
    (component = "ring" /\ r_state = "up" /\ lastOp = "io_uring_submit") =>
        /\ sqe_head = sq_ktail
        /\ PublishingPathTaken => Unsubmitted = 0

\* C30: the cursors wrap and the protocol does not notice: when sqe_tail has
\* wrapped and sqe_head has not, io_uring_submit on its publishing path
\* still publishes the sqe_tail - sqe_head (modulo 2^w) slots that are
\* filled and unpublished, and io_uring_get_sqe still bounds that number.
C30_WrapInsensitive ==
    [][/\ (RingUp /\ sqe_tail < sqe_head /\ ~(pending /\ sq_ktail # sq_khead)
              /\ lastOp' = "io_uring_submit")
          => published' = USub(sqe_tail, sqe_head)
       /\ (RingUp /\ UInc(sqe_tail) < sqe_head
              /\ lastOp' = "io_uring_get_sqe")
          => ((lastRes' = "nullptr")
                 <=> (USub(UInc(sqe_tail), sqe_head) > sq_ring_size))]_vars

\* ---- submission ring: progress ----

\* C31: the ring does not get stuck pending: when io_uring_submit keeps
\* being called, io_uring_enter succeeds in the end and the kernel keeps
\* consuming, the pending flag is cleared again, every acquired slot is
\* published in the end (the software head catches up with the software
\* tail again and again) and every published entry is consumed (the
\* kernel's head keeps moving while it is behind the published tail).
C31_NotStuckPending ==
    /\ pending ~> ~pending
    /\ []<>(sqe_head = sqe_tail)
    /\ []<>(sq_khead = sq_ktail \/ lastOp = "kernel_consume")
====
